------------------------------ MODULE Spec2Model ------------------------------
(***************************************************************************)
(* A model of the PubTator reader and converter (src/pubtator.py).         *)
(*                                                                         *)
(* A line is the sequence of its characters without the line terminator    *)
(* (every classifier removes it: rstrip at pubtator.py 25, 28, 31, 410 and *)
(* the trailing \s*$ of SPAN_RE and REL_RE).  A character is a string of   *)
(* length one, and no character of a line is a newline.  The input of     *)
(* read_pubtator is a finite sequence of lines.                            *)
(***************************************************************************)
EXTENDS Integers, Sequences, FiniteSets, TLC

VARIABLES
    input,      \* the lines of the file-like object handed to read_pubtator
    ids,        \* the ids argument of read_pubtator
    validate,   \* the validate argument of read_pubtator
    lines,      \* the LookaheadIterator of read_pubtator
    errors,     \* read_pubtator.errors
    yielded,    \* the Documents yielded so far, in order
    status,     \* "running", "done" (generator returned), "raised" (propagated)
    passes,     \* one entry per pass of the main loop of read_pubtator
    doc,        \* the Document handed to a serializer
    format,     \* the serializer chosen by the caller
    out,        \* the outcome of the serializer
    threads,    \* the threads that run read_pubtator, each on its own input
    calls,      \* the calls made on a LookaheadIterator by its user, in order
    merge,      \* the annotation sets handed to resolve_duplicate_ids
    split       \* the sentences and the text handed to _realign

vars == <<input, ids, validate, lines, errors, yielded, status, passes,
          doc, format, out, threads, calls,
          merge, split>>

streamVars == <<input, ids, validate, lines, errors, yielded, status, passes>>
serVars == <<doc, format, out>>
toolVars == <<merge, split>>
otherVars == <<threads, calls, merge, split>>

\* no thread but the caller's, and a reader only read_pubtator uses
ToolsIdle ==
    /\ merge = [state |-> "none", before |-> <<>>, annotations |-> <<>>]
    /\ split = [state |-> "none", sentences |-> <<>>, text |-> <<>>,
                exc |-> "", aligned |-> <<>>]

OtherIdle == threads = <<>> /\ calls = <<>> /\ ToolsIdle

-----------------------------------------------------------------------------
(* Characters and strings                                                  *)

TAB == "\t"
NL == "\n"

\* [0-9]
AsciiDigit == {"0", "1", "2", "3", "4", "5", "6", "7", "8", "9"}

\* the decimal digits of other scripts that \d matches and int() reads in a
\* Python 3 str, each row the digits zero to nine of one script: those from
\* U+06F0, U+07C0, U+09E6, U+0AE6, U+0BE6, U+0CE6, U+0DE6, U+0ED0, U+1090,
\* U+17E0, U+19D0, U+1A80, U+1A90, U+1BB0, U+A8D0, U+A9D0, U+A9F0 and U+ABF0
\* on.  Python has 47 more such scripts, whose digits a TLA+ string cannot
\* hold: no input of the model has them.
OtherDigits ==
    <<
       <<"۰", "۱", "۲", "۳", "۴", "۵", "۶", "۷", "۸", "۹">>,
       <<"߀", "߁", "߂", "߃", "߄", "߅", "߆", "߇", "߈", "߉">>,
       <<"০", "১", "২", "৩", "৪", "৫", "৬", "৭", "৮", "৯">>,
       <<"૦", "૧", "૨", "૩", "૪", "૫", "૬", "૭", "૮", "૯">>,
       <<"௦", "௧", "௨", "௩", "௪", "௫", "௬", "௭", "௮", "௯">>,
       <<"೦", "೧", "೨", "೩", "೪", "೫", "೬", "೭", "೮", "೯">>,
       <<"෦", "෧", "෨", "෩", "෪", "෫", "෬", "෭", "෮", "෯">>,
       <<"໐", "໑", "໒", "໓", "໔", "໕", "໖", "໗", "໘", "໙">>,
       <<"႐", "႑", "႒", "႓", "႔", "႕", "႖", "႗", "႘", "႙">>,
       <<"០", "១", "២", "៣", "៤", "៥", "៦", "៧", "៨", "៩">>,
       <<"᧐", "᧑", "᧒", "᧓", "᧔", "᧕", "᧖", "᧗", "᧘", "᧙">>,
       <<"᪀", "᪁", "᪂", "᪃", "᪄", "᪅", "᪆", "᪇", "᪈", "᪉">>,
       <<"᪐", "᪑", "᪒", "᪓", "᪔", "᪕", "᪖", "᪗", "᪘", "᪙">>,
       <<"᮰", "᮱", "᮲", "᮳", "᮴", "᮵", "᮶", "᮷", "᮸", "᮹">>,
       <<"꣐", "꣑", "꣒", "꣓", "꣔", "꣕", "꣖", "꣗", "꣘", "꣙">>,
       <<"꧐", "꧑", "꧒", "꧓", "꧔", "꧕", "꧖", "꧗", "꧘", "꧙">>,
       <<"꧰", "꧱", "꧲", "꧳", "꧴", "꧵", "꧶", "꧷", "꧸", "꧹">>,
       <<"꯰", "꯱", "꯲", "꯳", "꯴", "꯵", "꯶", "꯷", "꯸", "꯹">>
    >>

\* the characters \d matches in a Python 3 str
Digit ==
    AsciiDigit
        \cup UNION {{OtherDigits[r][v] : v \in 1..10} : r \in 1..Len(OtherDigits)}

Letter == {"a", "b", "c", "d", "e", "f", "g", "h", "i", "j", "k", "l", "m",
           "n", "o", "p", "q", "r", "s", "t", "u", "v", "w", "x", "y", "z",
           "A", "B", "C", "D", "E", "F", "G", "H", "I", "J", "K", "L", "M",
           "N", "O", "P", "Q", "R", "S", "T", "U", "V", "W", "X", "Y", "Z"}

\* the characters \s matches, str.strip() removes and str.isspace() accepts
\* in a Python 3 str: space, \t, \n, \r, \f, and (written here as the
\* characters themselves) U+000B, U+001C, U+001D, U+001E, U+001F, U+0085,
\* U+00A0 and U+1680.  Python also counts U+2000..U+200A, U+2028, U+2029,
\* U+202F, U+205F and U+3000, which a TLA+ string cannot hold: no input
\* of the model has them.
Whitespace ==
    {" ", TAB, NL, "\r", "\f",
     "", "", "", "", "", "", " ", " "}

\* Python's None: no line and no id equals it (they hold single characters)
None == <<"None">>

Min(a, b) == IF a <= b THEN a ELSE b

\* the value int() gives the digit c
DigitVal(c) ==
    CASE c = "0" -> 0 [] c = "1" -> 1 [] c = "2" -> 2 [] c = "3" -> 3
      [] c = "4" -> 4 [] c = "5" -> 5 [] c = "6" -> 6 [] c = "7" -> 7
      [] c = "8" -> 8 [] c = "9" -> 9
      [] OTHER -> CHOOSE v \in 0..9 :
                      \E r \in 1..Len(OtherDigits) : OtherDigits[r][v + 1] = c

\* int(s) of a string of digits
RECURSIVE ToInt(_)
ToInt(s) ==
    IF s = <<>> THEN 0
    ELSE 10 * ToInt(SubSeq(s, 1, Len(s) - 1)) + DigitVal(s[Len(s)])

\* the number of characters of s from position p on that are in S
RECURSIVE RunIn(_, _, _)
RunIn(s, p, S) ==
    IF p <= Len(s) /\ s[p] \in S THEN 1 + RunIn(s, p + 1, S) ELSE 0

\* the number of characters of s from position p on that are not in S
RECURSIVE RunNotIn(_, _, _)
RunNotIn(s, p, S) ==
    IF p <= Len(s) /\ s[p] \notin S THEN 1 + RunNotIn(s, p + 1, S) ELSE 0

From(s, p) == SubSeq(s, p, Len(s))

AllIn(s, S) == \A i \in 1..Len(s) : s[i] \in S

\* s.strip()
RECURSIVE Strip(_)
Strip(s) ==
    IF s = <<>> THEN s
    ELSE IF s[1] \in Whitespace THEN Strip(Tail(s))
    ELSE IF s[Len(s)] \in Whitespace THEN Strip(SubSeq(s, 1, Len(s) - 1))
    ELSE s

\* s[a:b] for non-negative a, b
Slice(s, a, b) == SubSeq(s, a + 1, Min(b, Len(s)))

\* sep.join(ss)
RECURSIVE Join(_, _)
Join(sep, ss) ==
    IF ss = <<>> THEN <<>>
    ELSE IF Len(ss) = 1 THEN ss[1]
    ELSE ss[1] \o sep \o Join(sep, Tail(ss))

-----------------------------------------------------------------------------
(* Line classifier: TEXT_RE, SPAN_RE, REL_RE, NORM_RE                      *)

NoMatch == [ok |-> FALSE]

\* A definition that is used several times takes what it works on as a
\* parameter, so each step of a match is an operator of its own.

\* the match of TEXT_RE on a line with k leading digits
TextGroups(line, k) ==
    IF /\ k >= 1
       /\ Len(line) >= k + 3
       /\ line[k + 1] = "|"
       /\ line[k + 3] = "|"
    THEN [ok |-> TRUE, docid |-> SubSeq(line, 1, k), type |-> <<line[k + 2]>>,
          text |-> From(line, k + 4)]
    ELSE NoMatch

\* TEXT_RE.match(line): ^(\d+)\|(.)\|(.*)$
TEXT_RE(line) == TextGroups(line, RunIn(line, 1, Digit))

\* f put before the fields fs, where no fields (<<>>) stands for failure
Before(f, fs) == IF fs = <<>> THEN <<>> ELSE <<f>> \o fs

\* s cut at its first n separators sep: the n fields and what follows the
\* n-th separator, or <<>> when s has fewer than n separators
RECURSIVE Cut(_, _, _)
CutAt(s, sep, n, k) ==
    IF k >= Len(s) THEN <<>>
    ELSE Before(SubSeq(s, 1, k), Cut(From(s, k + 2), sep, n - 1))
Cut(s, sep, n) ==
    IF n = 0 THEN <<s>> ELSE CutAt(s, sep, n, RunNotIn(s, 1, {sep}))

IsDigits(s) == s # <<>> /\ AllIn(s, Digit)
IsToken(s) == s # <<>> /\ \A i \in 1..Len(s) : s[i] \notin Whitespace

\* SPAN_RE.match(line):
\* ^(\d+)\t(\d+)\t(\d+)\t([^\t]+)\t(\S+)\t*(\S*)(?:\t(.*))?\s*$
\* The first four fields end at a tab each; t is what follows them.  The
\* type is the longest run of non-space characters of t (k5 of them); it is
\* followed by m tabs, the longest run of non-space characters (k6 of them)
\* and a rest.  With all m tabs taken by \t* the norm is that run, and the
\* match succeeds when the rest starts with a tab (the optional group) or
\* is white space; failing that, and with m >= 1, \t* gives one tab back,
\* the norm is empty and the optional group takes that tab and what follows.
SpanGroups(f, type_, norm, sub) ==
    [ok |-> TRUE, docid |-> f[1], start |-> f[2], end |-> f[3],
     text |-> f[4], type |-> type_, norms |-> norm, substrings |-> sub]

SpanRest(f, t, k5, m, k6, rest) ==
    IF rest # <<>> /\ rest[1] = TAB
    THEN SpanGroups(f, SubSeq(t, 1, k5),
                    SubSeq(t, k5 + m + 1, k5 + m + k6), Tail(rest))
    ELSE IF AllIn(rest, Whitespace)
    THEN SpanGroups(f, SubSeq(t, 1, k5),
                    SubSeq(t, k5 + m + 1, k5 + m + k6), None)
    ELSE IF m >= 1
    THEN SpanGroups(f, SubSeq(t, 1, k5), <<>>, From(t, k5 + m + 1))
    ELSE NoMatch

SpanNorm(f, t, k5, m, k6) == SpanRest(f, t, k5, m, k6, From(t, k5 + m + k6 + 1))

SpanTabs(f, t, k5, m) ==
    SpanNorm(f, t, k5, m, RunNotIn(t, k5 + m + 1, Whitespace))

SpanType(f, t, k5) ==
    IF k5 = 0 THEN NoMatch ELSE SpanTabs(f, t, k5, RunIn(t, k5 + 1, {TAB}))

SpanFields(f) ==
    IF f = <<>> THEN NoMatch
    ELSE IF ~(IsDigits(f[1]) /\ IsDigits(f[2]) /\ IsDigits(f[3]) /\ f[4] # <<>>)
    THEN NoMatch
    ELSE SpanType(f, f[5], RunNotIn(f[5], 1, Whitespace))

SPAN_RE(line) == SpanFields(Cut(line, TAB, 4))

\* REL_RE.match(line): ^(\d+)\t(\S+)\t(\S+)\t(\S+)\s*$
RelLast(f, t, k4) ==
    IF k4 >= 1 /\ AllIn(From(t, k4 + 1), Whitespace)
    THEN [ok |-> TRUE, docid |-> f[1], type |-> f[2], arg1 |-> f[3],
          arg2 |-> SubSeq(t, 1, k4)]
    ELSE NoMatch

RelFields(f) ==
    IF f = <<>> THEN NoMatch
    ELSE IF ~(IsDigits(f[1]) /\ IsToken(f[2]) /\ IsToken(f[3])) THEN NoMatch
    ELSE RelLast(f, f[4], RunNotIn(f[4], 1, Whitespace))

REL_RE(line) == RelFields(Cut(line, TAB, 3))

\* NORM_RE.search(s): [A-Za-z0-9] anywhere in s
NORM_RE(s) == \E i \in 1..Len(s) : s[i] \in Letter \cup AsciiDigit

\* line.rstrip('\n\r')
RECURSIVE rstrip_nl(_)
rstrip_nl(s) ==
    IF s # <<>> /\ s[Len(s)] \in {NL, "\r"}
    THEN rstrip_nl(SubSeq(s, 1, Len(s) - 1)) ELSE s

\* is_text_line, is_span_line, is_rel_line of a line; applied to None they
\* raise AttributeError (None has no rstrip), which the callers below model
is_text_line(line) == TEXT_RE(rstrip_nl(line)).ok
is_span_line(line) == SPAN_RE(rstrip_nl(line)).ok
is_rel_line(line) == REL_RE(rstrip_nl(line)).ok

-----------------------------------------------------------------------------
(* LookaheadIterator over the lines src.  it and nextit are the numbers of  *)
(* lines the two tee iterators have returned.                               *)

\* LookaheadIterator._advance
_advance(src, fl) ==
    IF fl.nextit < Len(src)
    THEN [fl EXCEPT !.lookahead = src[fl.nextit + 1],
                    !.nextit = fl.nextit + 1,
                    !.index = fl.index + 1]
    ELSE [fl EXCEPT !.lookahead = None, !.index = fl.index + 1]

\* LookaheadIterator.__init__
LookaheadIterator(src) ==
    _advance(src, [it |-> 0, nextit |-> 0, lookahead |-> None, index |-> -1])

\* next(self._it) after _advance left the reader a: stop is StopIteration
Take(src, a) ==
    IF a.it < Len(src)
    THEN [fl |-> [a EXCEPT !.it = a.it + 1], stop |-> FALSE,
          line |-> src[a.it + 1]]
    ELSE [fl |-> a, stop |-> TRUE, line |-> None]

\* a next that returns the next line without advancing the lookahead
next_stale(src, fl) == Take(src, fl)

\* LookaheadIterator.next / __next__
next(src, fl) == Take(src, _advance(src, fl))

\* LookaheadIterator.__bool__
bool(fl) == fl.lookahead # None

-----------------------------------------------------------------------------
(* Annotation model and validator                                           *)

\* SpanAnnotation.__init__
SpanAnnotation(docid, start, end, text, type_, norms, substrings) ==
    [kind |-> "span", docid |-> docid, start |-> ToInt(start),
     end |-> ToInt(end), text |-> text, type |-> type_, norms |-> norms,
     substrings |-> substrings]

\* RelationAnnotation.__init__
RelationAnnotation(docid, type_, arg1, arg2) ==
    [kind |-> "rel", docid |-> docid, type |-> type_, arg1 |-> arg1,
     arg2 |-> arg2]

\* cls(*m.groups()) of a match m, or ParseError (ok is FALSE)
SpanOf(m) ==
    IF ~m.ok THEN [ok |-> FALSE]
    ELSE [ok |-> TRUE,
          ann |-> SpanAnnotation(m.docid, m.start, m.end, m.text, m.type,
                                 m.norms, m.substrings)]

\* SpanAnnotation.from_string
Span_from_string(s) == SpanOf(SPAN_RE(s))

RelOf(m) ==
    IF ~m.ok THEN [ok |-> FALSE]
    ELSE [ok |-> TRUE,
          ann |-> RelationAnnotation(m.docid, m.type, m.arg1, m.arg2)]

\* RelationAnnotation.from_string
Rel_from_string(s) == RelOf(REL_RE(s))

\* PubTatorDocument.__init__
PubTatorDocument(id_, text_sections, annotations) ==
    [id |-> id_, text_sections |-> text_sections, annotations |-> annotations]

\* PubTatorDocument.text
DocText(d) ==
    Join(<<NL>>, [i \in 1..Len(d.text_sections) |-> d.text_sections[i][2]])

\* a validate that raises for a text mismatch instead of warning
Ann_validate_raising(a, doc_text) ==
    IF a.kind = "rel" THEN [warn |-> FALSE, raise |-> FALSE]
    ELSE [warn |-> Slice(doc_text, a.start, a.end) # a.text,
          raise |-> \/ Slice(doc_text, a.start, a.end) # a.text
                    \/ a.norms # None /\ a.norms # <<>> /\ ~NORM_RE(a.norms)]

\* SpanAnnotation.validate / RelationAnnotation.validate: warn is the text
\* mismatch warning, raise the ValueError of a norm without alphanumerics
Ann_validate(a, doc_text) ==
    IF a.kind = "rel" THEN [warn |-> FALSE, raise |-> FALSE]
    ELSE [warn |-> Slice(doc_text, a.start, a.end) # a.text,
          raise |-> a.norms # None /\ a.norms # <<>> /\ ~NORM_RE(a.norms)]

\* PubTatorDocument.validate from annotation i on: the number of warnings
\* issued and whether an annotation raised (validation stops there)
RECURSIVE ValidateFrom(_, _, _, _)
ValidateStep(anns, doc_text, i, warned, v) ==
    IF v.raise
    THEN [raise |-> TRUE, warnings |-> IF v.warn THEN warned + 1 ELSE warned]
    ELSE ValidateFrom(anns, doc_text, i + 1,
                      IF v.warn THEN warned + 1 ELSE warned)
ValidateFrom(anns, doc_text, i, warned) ==
    IF i > Len(anns) THEN [raise |-> FALSE, warnings |-> warned]
    ELSE ValidateStep(anns, doc_text, i, warned,
                      Ann_validate(anns[i], doc_text))

Doc_validate(d) == ValidateFrom(d.annotations, DocText(d), 1, 0)

-----------------------------------------------------------------------------
(* Document parser, id filter and error recovery.  Each operator returns    *)
(* the reader as the call leaves it and exc, the exception that leaves the  *)
(* call ("" for a normal return).                                           *)

NoDoc == PubTatorDocument(None, <<>>, <<>>)

\* the loop that skips initial empty lines (pubtator.py 369-370, 406-407)
RECURSIVE SkipBlank(_, _)
SkipBlank(src, fl) ==
    IF fl.lookahead # None /\ Strip(fl.lookahead) = <<>>
    THEN SkipBlank(src, next(src, fl).fl)
    ELSE fl

TextResult(f, e, id, ts) ==
    [fl |-> f, exc |-> e, document_id |-> id, text_sections |-> ts]

\* the loop over the text lines of read_pubtator_document (409-420)
RECURSIVE TextLoop(_, _, _, _)

\* 413-420: the line matched as m and the reader is f
TextAccept(src, f, m, document_id, text_sections, secs) ==
    IF document_id # None /\ m.docid # document_id
    THEN TextResult(f, "ParseError", document_id, text_sections)
    ELSE IF f.lookahead = None
    THEN TextResult(f, "AttributeError", m.docid, secs)
    ELSE IF ~is_text_line(f.lookahead)
    THEN TextResult(f, "", m.docid, secs)
    ELSE TextLoop(src, f, m.docid, secs)

\* 410-412: the outcome m of TEXT_RE.match on the line
TextMatch(src, f, m, document_id, text_sections) ==
    IF ~m.ok THEN TextResult(f, "ParseError", document_id, text_sections)
    ELSE TextAccept(src, f, m, document_id, text_sections,
                    IF Strip(m.text) # <<>>
                    THEN Append(text_sections, <<m.type, m.text>>)
                    ELSE text_sections)

\* 409: r is what next(fl) gave
TextLine(src, r, document_id, text_sections) ==
    IF r.stop THEN TextResult(r.fl, "", document_id, text_sections)
    ELSE TextMatch(src, r.fl, TEXT_RE(rstrip_nl(r.line)), document_id,
                   text_sections)

TextLoop(src, fl, document_id, text_sections) ==
    TextLine(src, next(src, fl), document_id, text_sections)

AnnResult(f, e, as) == [fl |-> f, exc |-> e, annotations |-> as]

\* the loop over the annotation lines of read_pubtator_document (422-431)
RECURSIVE AnnLoop(_, _, _)

\* the annotation loop putting each annotation before those already read
AnnAppend_prepend(src, f, a, annotations) ==
    IF a.ok THEN AnnLoop(src, f, <<a.ann>> \o annotations)
    ELSE AnnResult(f, "ParseError", annotations)

\* 427, 429: a is what from_string gave
AnnAppend(src, f, a, annotations) ==
    IF a.ok THEN AnnLoop(src, f, Append(annotations, a.ann))
    ELSE AnnResult(f, "ParseError", annotations)

\* 423-431: r is what next(fl) gave
AnnLine(src, r, annotations) ==
    IF r.stop THEN AnnResult(r.fl, "", annotations)
    ELSE IF Strip(r.line) = <<>> THEN AnnResult(r.fl, "", annotations)
    ELSE IF is_span_line(r.line)
    THEN AnnAppend(src, r.fl, Span_from_string(r.line), annotations)
    ELSE IF is_rel_line(r.line)
    THEN AnnAppend(src, r.fl, Rel_from_string(r.line), annotations)
    ELSE AnnResult(r.fl, "ParseError", annotations)

AnnLoop(src, fl, annotations) == AnnLine(src, next(src, fl), annotations)

ReadResult(f, e, d, w) == [fl |-> f, exc |-> e, doc |-> d, warnings |-> w]

\* 434-436: v is what d.validate() does
ReadValidate(f, d, validate_, v) ==
    IF ~validate_ THEN ReadResult(f, "", d, 0)
    ELSE IF v.raise THEN ReadResult(f, "ValueError", NoDoc, v.warnings)
    ELSE ReadResult(f, "", d, v.warnings)

\* 433: d is the Document assembled
ReadDocument(f, d, validate_) == ReadValidate(f, d, validate_, Doc_validate(d))

\* 422-433: t is the outcome of the text loop, a of the annotation loop
ReadAnns(t, a, validate_) ==
    IF a.exc # "" THEN ReadResult(a.fl, a.exc, NoDoc, 0)
    ELSE ReadDocument(a.fl,
                      PubTatorDocument(t.document_id, t.text_sections,
                                       a.annotations),
                      validate_)

ReadText(src, t, validate_) ==
    IF t.exc # "" THEN ReadResult(t.fl, t.exc, NoDoc, 0)
    ELSE ReadAnns(t, AnnLoop(src, t.fl, <<>>), validate_)

\* read_pubtator_document: doc is the Document returned when exc = "";
\* warnings counts the text mismatch warnings of the validation
read_pubtator_document(src, fl, validate_) ==
    ReadText(src, TextLoop(src, SkipBlank(src, fl), None, <<>>), validate_)

\* the ids argument when it is None
NoIds == {None}

\* the loop that discards a record in skip_pubtator_document (380-382)
RECURSIVE DiscardLoop(_, _)
DiscardLine(src, r) ==
    IF r.stop \/ Strip(r.line) = <<>> THEN r.fl ELSE DiscardLoop(src, r.fl)
DiscardLoop(src, fl) == DiscardLine(src, next(src, fl))

SkipResult(f, e, sk) == [fl |-> f, exc |-> e, skipped |-> sk]

\* a skip that reports the record skipped and leaves its lines unread
SkipMatch_unread(src, f, m, ids_) ==
    IF ~m.ok THEN SkipResult(f, "ParseError", FALSE)
    ELSE IF m.docid \in ids_ THEN SkipResult(f, "", FALSE)
    ELSE SkipResult(f, "", TRUE)

\* 373-384: m is the outcome of TEXT_RE.match on the lookahead of f
SkipMatch(src, f, m, ids_) ==
    IF ~m.ok THEN SkipResult(f, "ParseError", FALSE)
    ELSE IF m.docid \in ids_ THEN SkipResult(f, "", FALSE)
    ELSE SkipResult(DiscardLoop(src, f), "", TRUE)

\* 372-373: f is the reader after the initial empty lines
SkipPeek(src, f, ids_) ==
    IF f.lookahead = None THEN SkipResult(f, "AttributeError", FALSE)
    ELSE SkipMatch(src, f, TEXT_RE(rstrip_nl(f.lookahead)), ids_)

\* skip_pubtator_document: skipped is the value returned when exc = ""
skip_pubtator_document(src, fl, ids_) ==
    IF ids_ = NoIds \/ ids_ = {} THEN SkipResult(fl, "", FALSE)
    ELSE SkipPeek(src, SkipBlank(src, fl), ids_)

\* the loop of recover_from_error (393-395)
RECURSIVE RecoverLoop(_, _)
RecoverLine(src, r) ==
    IF r.stop THEN r.fl
    ELSE IF r.fl.lookahead # None /\ is_text_line(r.fl.lookahead) THEN r.fl
    ELSE RecoverLoop(src, r.fl)
RecoverLoop(src, fl) == RecoverLine(src, next(src, fl))

\* a recovery that discards at least the line at the lookahead
recover_from_error_eager(src, fl) ==
    IF fl.lookahead = None THEN fl ELSE RecoverLoop(src, fl)

\* recover_from_error
recover_from_error(src, fl) ==
    IF fl.lookahead = None \/ is_text_line(fl.lookahead) THEN fl
    ELSE RecoverLoop(src, fl)

-----------------------------------------------------------------------------
(* Normalized identifiers of a span                                         *)

DigitChar(d) ==
    CASE d = 0 -> "0" [] d = 1 -> "1" [] d = 2 -> "2" [] d = 3 -> "3"
      [] d = 4 -> "4" [] d = 5 -> "5" [] d = 6 -> "6" [] d = 7 -> "7"
      [] d = 8 -> "8" [] d = 9 -> "9"

\* str(n), '%d' % n for n >= 0
RECURSIVE ToStr(_)
ToStr(n) ==
    IF n < 10 THEN <<DigitChar(n)>>
    ELSE ToStr(n \div 10) \o <<DigitChar(n % 10)>>

\* sub in s
Contains(s, sub) ==
    \E i \in 0..(Len(s) - Len(sub)) : SubSeq(s, i + 1, i + Len(sub)) = sub

\* s.split(sep) for a separator of one character
RECURSIVE Split(_, _)
SplitAt(s, sep, k) ==
    IF k >= Len(s) THEN <<s>>
    ELSE <<SubSeq(s, 1, k)>> \o Split(From(s, k + 2), sep)
Split(s, sep) == SplitAt(s, sep, RunNotIn(s, 1, {sep}))

\* SpanAnnotation.split_norm
split_norm(norm, type_) ==
    IF Contains(norm, <<";">>) THEN Split(norm, ";")
    ELSE IF Contains(norm, <<"|">>) /\ type_ = <<"C", "h", "e", "m", "i", "c", "a", "l">>
    THEN Split(norm, "|")
    ELSE <<norm>>

\* re.match(r'^(\d+)\(Tax:\d+\)$', norm) with k leading digits and k2 digits
\* after '(Tax:': ok is FALSE for the ValueError
TaxMatch(norm, k, k2) ==
    IF /\ k >= 1
       /\ Len(norm) >= k + 5
       /\ SubSeq(norm, k + 1, k + 5) = <<"(", "T", "a", "x", ":">>
       /\ k2 >= 1
       /\ Len(norm) = k + 5 + k2 + 1
       /\ norm[Len(norm)] = ")"
    THEN [ok |-> TRUE, norm |-> SubSeq(norm, 1, k)]
    ELSE [ok |-> FALSE, norm |-> norm]

TaxDigits(norm, k) == TaxMatch(norm, k, RunIn(norm, k + 6, Digit))

\* SpanAnnotation.strip_taxonomy_id
strip_taxonomy_id(norm) == TaxDigits(norm, RunIn(norm, 1, Digit))

\* norm_namespace testing the type for equality and not for containment
norm_namespace_equal(type_) ==
    IF type_ = <<"S", "p", "e", "c", "i", "e", "s">> THEN <<"N", "C", "B", "I", "T", "a", "x", "o", "n">>
    ELSE IF type_ = <<"G", "e", "n", "e">> THEN <<"N", "C", "B", "I", "G", "E", "N", "E">>
    ELSE IF type_ = <<"C", "h", "e", "m", "i", "c", "a", "l">> THEN <<"M", "E", "S", "H">>
    ELSE IF type_ \in {<<"D", "N", "A", "M", "u", "t", "a", "t", "i", "o", "n">>, <<"P", "r", "o", "t", "e", "i", "n", "M", "u", "t", "a", "t", "i", "o", "n">>, <<"S", "N", "P">>}
    THEN type_
    ELSE <<"u", "n", "k", "n", "o", "w", "n">>

\* SpanAnnotation.norm_namespace
norm_namespace(type_) ==
    IF Contains(type_, <<"S", "p", "e", "c", "i", "e", "s">>) THEN <<"N", "C", "B", "I", "T", "a", "x", "o", "n">>
    ELSE IF Contains(type_, <<"G", "e", "n", "e">>) THEN <<"N", "C", "B", "I", "G", "E", "N", "E">>
    ELSE IF Contains(type_, <<"C", "h", "e", "m", "i", "c", "a", "l">>) THEN <<"M", "E", "S", "H">>
    ELSE IF \E t \in {<<"D", "N", "A", "M", "u", "t", "a", "t", "i", "o", "n">>, <<"P", "r", "o", "t", "e", "i", "n", "M", "u", "t", "a", "t", "i", "o", "n">>, <<"S", "N", "P">>} :
                Contains(type_, t)
    THEN type_
    ELSE <<"u", "n", "k", "n", "o", "w", "n">>

\* map_to_output_type with SNP left out of the mutation types
map_to_output_type_no_snp(type_) ==
    IF type_ \in {<<"D", "N", "A", "M", "u", "t", "a", "t", "i", "o", "n">>, <<"P", "r", "o", "t", "e", "i", "n", "M", "u", "t", "a", "t", "i", "o", "n">>}
    THEN <<"M", "u", "t", "a", "t", "i", "o", "n">> ELSE type_

\* SpanAnnotation.map_to_output_type
map_to_output_type(type_) ==
    IF type_ \in {<<"D", "N", "A", "M", "u", "t", "a", "t", "i", "o", "n">>, <<"P", "r", "o", "t", "e", "i", "n", "M", "u", "t", "a", "t", "i", "o", "n">>, <<"S", "N", "P">>}
    THEN <<"M", "u", "t", "a", "t", "i", "o", "n">> ELSE type_

\* 101-103: add the namespace to a norm without one
Namespaced(norm, type_) ==
    IF ~Contains(norm, <<":">>) THEN norm_namespace(type_) \o <<":">> \o norm
    ELSE norm

NormsResult(e, ns) == [exc |-> e, norms |-> ns]

\* the loop of SpanAnnotation.norms (98-104) from part i on
RECURSIVE NormsLoop(_, _, _, _)
NormsStrip(parts, type_, i, acc, t) ==
    IF ~t.ok THEN NormsResult("ValueError", acc)
    ELSE NormsLoop(parts, type_, i + 1, Append(acc, Namespaced(t.norm, type_)))
NormsLoop(parts, type_, i, acc) ==
    IF i > Len(parts) THEN NormsResult("", acc)
    ELSE IF Contains(parts[i], <<"(", "T", "a", "x", ":">>)
    THEN NormsStrip(parts, type_, i, acc, strip_taxonomy_id(parts[i]))
    ELSE NormsLoop(parts, type_, i + 1,
                   Append(acc, Namespaced(parts[i], type_)))

\* SpanAnnotation.norms: the list of normalized ids, <<None>> if there is
\* none, or the ValueError of strip_taxonomy_id
norms(a) ==
    IF a.norms = None \/ Strip(a.norms) = <<>> THEN NormsResult("", <<None>>)
    ELSE NormsLoop(split_norm(a.norms, a.type), a.type, 1, <<>>)

-----------------------------------------------------------------------------
(* Serializers.  A dict is a function from its keys; the value handed to    *)
(* pretty_dumps is what a serializer gives.                                 *)

\* d with the key k set to v when the normalized id v is given (133-134)
WithNorm(d, k, v) == IF v # None /\ v # <<>> THEN (k :> v) @@ d ELSE d

\* SpanAnnotation.to_dicts given its norms ns
DictsOf(a, ns) ==
    [i \in 1..Len(ns) |->
        WithNorm([start |-> a.start, end |-> a.end, text |-> a.text,
                  type |-> map_to_output_type(a.type)], "norm", ns[i])]

\* the '%d,%d' target of a span in the document docurl
Target(a, docurl) ==
    docurl \o <<"/", "t", "e", "x", "t", "#", "c", "h", "a", "r", "=">> \o ToStr(a.start) \o <<",">> \o ToStr(a.end)

\* SpanAnnotation.to_oa_jsonld_dicts given its norms ns
OaDictsOf(a, docurl, idx, ns) ==
    [i \in 1..Len(ns) |->
        WithNorm(("@id" :> docurl \o <<"/", "a", "n", "n", "o", "t", "a", "t", "i", "o", "n", "s", "/">>
                             \o ToStr(idx + i - 1))
                 @@ ("@type" :> map_to_output_type(a.type))
                 @@ [target |-> Target(a, docurl), text |-> a.text],
                 "body", ns[i])]

\* to_wa_jsonld_dicts with a shallow copy of d in place of the deepcopy of
\* line 164: the entries of a span share one body, which ends with the last
\* identifier set in it
WaDictsOf_shallow(a, docurl, idx, ns) ==
    [i \in 1..Len(ns) |->
        [id |-> docurl \o <<"/", "a", "n", "n", "/">> \o ToStr(idx + i - 1),
         type |-> <<"S", "p", "a", "n">>,
         target |-> Target(a, docurl),
         body |-> WithNorm([type |-> map_to_output_type(a.type)], "id",
                           ns[Len(ns)]),
         text |-> a.text]]

\* SpanAnnotation.to_wa_jsonld_dicts given its norms ns
WaDictsOf(a, docurl, idx, ns) ==
    [i \in 1..Len(ns) |->
        [id |-> docurl \o <<"/", "a", "n", "n", "/">> \o ToStr(idx + i - 1),
         type |-> <<"S", "p", "a", "n">>,
         target |-> Target(a, docurl),
         body |-> WithNorm([type |-> map_to_output_type(a.type)], "id", ns[i]),
         text |-> a.text]]

\* the T line and the N lines of SpanAnnotation.to_ann_lines (185-196)
TLine(a, tid) ==
    tid \o <<TAB>> \o map_to_output_type(a.type) \o <<" ">> \o ToStr(a.start)
        \o <<" ">> \o ToStr(a.end) \o <<TAB>> \o a.text
NLine(a, nid, tid, norm) ==
    nid \o <<TAB>> \o <<"R", "e", "f", "e", "r", "e", "n", "c", "e", " ">> \o tid \o <<" ">> \o norm \o <<TAB>> \o a.text

\* next_in_seq from the candidate i on; taken is the set of the keys
RECURSIVE SeqFrom(_, _, _)
SeqFrom(prefix, taken, i) ==
    IF prefix \o ToStr(i) \notin taken THEN prefix \o ToStr(i)
    ELSE SeqFrom(prefix, taken, i + 1)

\* next_in_seq
next_in_seq(prefix, taken) == SeqFrom(prefix, taken, 1)

\* a serializer's result: the exception that leaves it ("" for none), what
\* it gives (lines or dicts) and the table of the ids given out
SerResult(e, v, t) == [exc |-> e, value |-> v, taken |-> t]

\* the loop over the norms in to_ann_lines (190-196) from norm i on
RECURSIVE AnnLinesLoop(_, _, _, _, _, _)
AnnLinesMint(a, tid, ns, i, anns, ann_by_id, nid) ==
    AnnLinesLoop(a, tid, ns, i + 1, Append(anns, NLine(a, nid, tid, ns[i])),
                 ann_by_id \cup {nid})
AnnLinesLoop(a, tid, ns, i, anns, ann_by_id) ==
    IF i > Len(ns) THEN SerResult("", anns, ann_by_id)
    ELSE IF ns[i] = None \/ ns[i] = <<>>
    THEN AnnLinesLoop(a, tid, ns, i + 1, anns, ann_by_id)
    ELSE AnnLinesMint(a, tid, ns, i, anns, ann_by_id,
                      next_in_seq(<<"N">>, ann_by_id))

\* 184-190: tid is the T id minted, n the norms of the span
AnnLinesNorms(a, tid, n, ann_by_id) ==
    IF n.exc # "" THEN SerResult(n.exc, <<>>, ann_by_id \cup {tid})
    ELSE AnnLinesLoop(a, tid, n.norms, 1, <<TLine(a, tid)>>,
                      ann_by_id \cup {tid})

\* SpanAnnotation.to_ann_lines; RelationAnnotation.to_ann_lines raises
to_ann_lines(a, ann_by_id) ==
    IF a.kind = "rel" THEN SerResult("NotImplementedError", <<>>, ann_by_id)
    ELSE AnnLinesNorms(a, next_in_seq(<<"T">>, ann_by_id), norms(a), ann_by_id)

\* to_dicts given the norms n: RelationAnnotation.to_dicts raises
DictsNorms(a, n) ==
    IF n.exc # "" THEN SerResult(n.exc, <<>>, {})
    ELSE SerResult("", DictsOf(a, n.norms), {})

\* SpanAnnotation.to_dicts / RelationAnnotation.to_dicts
to_dicts(a) ==
    IF a.kind = "rel" THEN SerResult("NotImplementedError", <<>>, {})
    ELSE DictsNorms(a, norms(a))

OaNorms(a, docurl, idx, n) ==
    IF n.exc # "" THEN SerResult(n.exc, <<>>, {})
    ELSE SerResult("", OaDictsOf(a, docurl, idx, n.norms), {})

\* SpanAnnotation.to_oa_jsonld_dicts; RelationAnnotation has no such method
to_oa_jsonld_dicts(a, docurl, idx) ==
    IF a.kind = "rel" THEN SerResult("AttributeError", <<>>, {})
    ELSE OaNorms(a, docurl, idx, norms(a))

WaNorms(a, docurl, idx, n) ==
    IF n.exc # "" THEN SerResult(n.exc, <<>>, {})
    ELSE SerResult("", WaDictsOf(a, docurl, idx, n.norms), {})

\* SpanAnnotation.to_wa_jsonld_dicts; RelationAnnotation has no such method
to_wa_jsonld_dicts(a, docurl, idx) ==
    IF a.kind = "rel" THEN SerResult("AttributeError", <<>>, {})
    ELSE WaNorms(a, docurl, idx, norms(a))

\* what a serializer called on a Document leaves: the exception that
\* leaves it ("" for none) and what it gave before
WriteResult(e, v) == [exc |-> e, value |-> v]

\* what one annotation gives in the format fmt after the idx dicts so far
DictItems(a, fmt, id_, idx) ==
    CASE fmt = "json" -> to_dicts(a)
      [] fmt = "oa-jsonld" -> to_oa_jsonld_dicts(a, <<"p", "u", "b", "m", "e", "d", "/">> \o id_, idx)
      [] fmt = "wa-jsonld" -> to_wa_jsonld_dicts(a, <<"P", "M", "I", "D", ":">> \o id_, idx)

\* the loop over the annotations in ann_dict, ann_oa_jsonld and
\* ann_wa_jsonld from annotation i on: no class test, nothing is caught,
\* and nothing is written when an annotation raises.  The two JSON-LD
\* serializers first form the document URL, 'pubmed/' + self.id or
\* 'PMID:' + self.id (339, 345): TypeError for the Document of id None
RECURSIVE DictsLoop(_, _, _, _)
DictsExtend(dd, fmt, i, d, r) ==
    IF r.exc # "" THEN WriteResult(r.exc, <<>>)
    ELSE DictsLoop(dd, fmt, i + 1, d \o r.value)
DictsLoop(dd, fmt, i, d) ==
    IF fmt # "json" /\ dd.id = None THEN WriteResult("TypeError", <<>>)
    ELSE IF i > Len(dd.annotations) THEN WriteResult("", d)
    ELSE DictsExtend(dd, fmt, i, d,
                     DictItems(dd.annotations[i], fmt, dd.id, Len(d)))

\* PubTatorDocument.title
DocTitle(d) ==
    Join(<<" ">>, SelectSeq([i \in 1..Len(d.text_sections) |->
                                IF d.text_sections[i][1] = <<"t">>
                                THEN d.text_sections[i][2] ELSE None],
                            LAMBDA t : t # None))

\* PubTatorDocument.text_dict
text_dict(d) ==
    [_id |-> d.id, title |-> DocTitle(d),
     abstract |-> SelectSeq([i \in 1..Len(d.text_sections) |->
                                IF d.text_sections[i][1] = <<"a">>
                                THEN [text |-> d.text_sections[i][2]]
                                ELSE [text |-> None]],
                            LAMBDA t : t.text # None)]

\* PubTatorDocument.to_json given what ann_dict gives: the document dict
JsonOf(d, r) ==
    IF r.exc # "" THEN r
    ELSE WriteResult("", text_dict(d) @@ [annotations |-> r.value])

\* PubTatorDocument.to_json
to_json(d) == JsonOf(d, DictsLoop(d, "json", 1, <<>>))

\* PubTatorDocument.to_oa_jsonld
to_oa_jsonld(d) == DictsLoop(d, "oa-jsonld", 1, <<>>)

\* PubTatorDocument.to_wa_jsonld
to_wa_jsonld(d) == DictsLoop(d, "wa-jsonld", 1, <<>>)


-----------------------------------------------------------------------------
(* The inputs explored                                                      *)

\* out before a serializer has run: runs counts the runs of the serializer
\* on the Document and prev is what the run before the last one gave
\* the caller of to_ann_lines keeps, for the serialization it is at, how
\* many annotations it has called it on (pos), the lines they gave (lines)
\* and the table it hands to each call (taken)
NoOut ==
    [state |-> "none", exc |-> "", value |-> <<>>, runs |-> 0, prev |-> <<>>,
     pos |-> 0, lines |-> <<>>, taken |-> {}]

\* the longest input, in lines
MaxLines == 4

Blank == <<>>
Text1 == <<"1", "|", "t", "|", "a", "b">>
Text2 == <<"2", "|", "a", "|", "c">>
\* a span of document 1 whose text is at its offsets, with a norm
SpanOk == <<"1", TAB, "0", TAB, "1", TAB, "a", TAB, "G", TAB, "7">>
\* a span whose text is not at its offsets, without a norm field
SpanMismatch == <<"1", TAB, "1", TAB, "2", TAB, "z", TAB, "G">>
\* a span whose norm has no alphanumeric character
SpanBadNorm == <<"1", TAB, "0", TAB, "1", TAB, "a", TAB, "G", TAB, "-">>
Relation == <<"1", TAB, "r", TAB, "T", TAB, "U">>
Garbage == <<"g">>

LinePool == {Blank, Text1, Text2, SpanOk, SpanMismatch, SpanBadNorm,
             Relation, Garbage}

Inputs == UNION {[1..n -> LinePool] : n \in 0..MaxLines}

IdChoices == {NoIds, {}, {<<"1">>}, {<<"2">>}}

-----------------------------------------------------------------------------
(* read_pubtator: one action per outcome of a pass of its main loop         *)

\* rd is the reader when the read or the skip ended; cited is the number at
\* the head of the message when it ended with ParseError, '%d' % fl.index
\* (375, 412, 415, 431)
PassResult(fl, k, e, rd, f, w, d) ==
    [kind |-> k, exc |-> e, first |-> fl.it, start_line |-> fl.index + 1,
     read |-> rd.it, curr_line |-> rd.index + 1, cited |-> rd.index,
     fl |-> f, warnings |-> w, doc |-> d]

\* 450-457: r is the outcome of read_pubtator_document
PassRead(src, fl, r) ==
    IF r.exc = "" THEN PassResult(fl, "yield", "", r.fl, r.fl, r.warnings, r.doc)
    ELSE PassResult(fl, "error", r.exc, r.fl, recover_from_error(src, r.fl),
                    r.warnings, NoDoc)

\* 448-449: s is the outcome of skip_pubtator_document
PassSkip(src, fl, s, validate_) ==
    IF s.exc # "" THEN PassResult(fl, "raise", s.exc, s.fl, s.fl, 0, NoDoc)
    ELSE IF s.skipped THEN PassResult(fl, "skip", "", s.fl, s.fl, 0, NoDoc)
    ELSE PassRead(src, fl, read_pubtator_document(src, s.fl, validate_))

\* what one pass of the main loop of read_pubtator does from the reader fl
Pass(src, fl, ids_, validate_) ==
    PassSkip(src, fl, skip_pubtator_document(src, fl, ids_), validate_)

ThisPass == Pass(input, lines, ids, validate)

\* what a pass leaves in the history
Entry(p) ==
    [kind |-> p.kind, exc |-> p.exc, first |-> p.first, read |-> p.read,
     last |-> p.fl.it, cited |-> p.cited, warnings |-> p.warnings,
     doc |-> p.doc]

Looping == status = "running" /\ bool(lines)

\* skip_pubtator_document returned True: continue (448-449)
SkipDocument ==
    /\ Looping
    /\ ThisPass.kind = "skip"
    /\ lines' = ThisPass.fl
    /\ passes' = Append(passes, Entry(ThisPass))
    /\ UNCHANGED <<input, ids, validate, errors, yielded, status>>
    /\ UNCHANGED serVars
    /\ UNCHANGED otherVars

\* skip_pubtator_document raised: it is called outside the try (448)
SkipRaises ==
    /\ Looping
    /\ ThisPass.kind = "raise"
    /\ lines' = ThisPass.fl
    /\ status' = "raised"
    /\ passes' = Append(passes, Entry(ThisPass))
    /\ UNCHANGED <<input, ids, validate, errors, yielded>>
    /\ UNCHANGED serVars
    /\ UNCHANGED otherVars

\* read_pubtator_document returned a Document: yield it (451)
YieldDocument ==
    /\ Looping
    /\ ThisPass.kind = "yield"
    /\ lines' = ThisPass.fl
    /\ yielded' = Append(yielded, ThisPass.doc)
    /\ passes' = Append(passes, Entry(ThisPass))
    /\ UNCHANGED <<input, ids, validate, errors, status>>
    /\ UNCHANGED serVars
    /\ UNCHANGED otherVars

\* read_pubtator_document raised: count the error and recover (452-457)
ReadFails ==
    /\ Looping
    /\ ThisPass.kind = "error"
    /\ errors' = errors + 1
    /\ lines' = ThisPass.fl
    /\ passes' = Append(passes, Entry(ThisPass))
    /\ UNCHANGED <<input, ids, validate, yielded, status>>
    /\ UNCHANGED serVars
    /\ UNCHANGED otherVars

\* the reader is exhausted: the generator returns (446)
Return ==
    /\ status = "running"
    /\ ~bool(lines)
    /\ status' = "done"
    /\ UNCHANGED <<input, ids, validate, lines, errors, yielded, passes>>
    /\ UNCHANGED serVars
    /\ UNCHANGED otherVars

Init ==
    /\ input \in Inputs
    /\ ids \in IdChoices
    /\ validate \in BOOLEAN
    /\ lines = LookaheadIterator(input)
    /\ errors = 0
    /\ yielded = <<>>
    /\ status = "running"
    /\ passes = <<>>
    /\ doc = NoDoc
    /\ format = "none"
    /\ out = NoOut
    /\ OtherIdle

Next ==
    \/ SkipDocument
    \/ SkipRaises
    \/ YieldDocument
    \/ ReadFails
    \/ Return

Spec == Init /\ [][Next]_vars

-----------------------------------------------------------------------------
(* The Documents serialized: each is read by read_pubtator_document from a  *)
(* record of one TEXT line and up to MaxAnns annotation lines.              *)

MaxAnns == 2

\* how many times a serializer is called on the same Document
MaxRuns == 2

SerText == <<"1", "|", "t", "|", "a", "b">>
SerGene == <<"1", TAB, "0", TAB, "1", TAB, "a", TAB, "G", "e", "n", "e", TAB, "7">>
SerChemical == <<"1", TAB, "0", TAB, "2", TAB, "a", "b", TAB, "C", "h", "e", "m", "i", "c", "a", "l", TAB, "M", ":", "1", "|", "2">>
SerSnp == <<"1", TAB, "1", TAB, "2", TAB, "b", TAB, "S", "N", "P", TAB, "r", ";", "s">>
SerNoNorm == <<"1", TAB, "0", TAB, "1", TAB, "a", TAB, "S", "p", "e", "c", "i", "e", "s">>
SerTax == <<"1", TAB, "0", TAB, "1", TAB, "a", TAB, "G", "e", "n", "e", TAB, "7", "(", "T", "a", "x", ":", "9", ")">>
SerTaxBad == <<"1", TAB, "0", TAB, "1", TAB, "a", TAB, "G", "e", "n", "e", TAB, "x", "(", "T", "a", "x", ":", "9", ")">>
SerDna == <<"1", TAB, "0", TAB, "1", TAB, "a", TAB, "D", "N", "A", "M", "u", "t", "a", "t", "i", "o", "n", TAB, "c", "|", "S", "U", "B", "|", "C">>
SerProtein == <<"1", TAB, "1", TAB, "2", TAB, "b", TAB, "P", "r", "o", "t", "e", "i", "n", "M", "u", "t", "a", "t", "i", "o", "n", TAB, "p", ":", "1">>
SerRelation == <<"1", TAB, "r", TAB, "T", TAB, "U">>

SerLinePool ==
    {SerGene, SerChemical, SerSnp, SerNoNorm, SerTax, SerTaxBad, SerDna,
     SerProtein, SerRelation}

SerInputs ==
    {<<SerText>> \o as \o <<Blank>> :
        as \in UNION {[1..n -> SerLinePool] : n \in 0..MaxAnns}}

Formats == {"standoff", "json", "oa-jsonld", "wa-jsonld"}

\* a serialization of the Document ended: e is the exception that left it
\* ("" for none) and v what it gave
Ended(e, v) ==
    [state |-> IF e = "" THEN "written" ELSE "raised", exc |-> e, value |-> v,
     runs |-> out.runs + 1, prev |-> out.value, pos |-> 0, lines |-> <<>>,
     taken |-> {}]

\* a serializer of PubTatorDocument is called on the Document: r is what
\* it leaves
Call(fmt, r) ==
    /\ out.runs < MaxRuns
    /\ format = fmt
    /\ out' = Ended(r.exc, r.value)
    /\ UNCHANGED <<doc, format>>
    /\ UNCHANGED streamVars
    /\ UNCHANGED otherVars

\* what the call r of to_ann_lines on the annotation after the first
\* out.pos leaves: a call that raises ends the serialization with the lines
\* of the calls before it, the call on the last annotation ends it with
\* all the lines
AfterAnnLines(r) ==
    IF r.exc # "" THEN Ended(r.exc, out.lines)
    ELSE IF out.pos + 1 = Len(doc.annotations)
    THEN Ended("", out.lines \o r.value)
    ELSE [out EXCEPT !.pos = @ + 1, !.lines = @ \o r.value,
                     !.taken = r.taken]

\* one call of to_ann_lines (SpanAnnotation 180-197, RelationAnnotation
\* 283-286): the caller serializes the Document to standoff by calling it
\* on each annotation in annotation order, with one table that starts
\* empty
CallToAnnLines ==
    /\ out.runs < MaxRuns
    /\ format = "standoff"
    /\ out.pos < Len(doc.annotations)
    /\ out' = AfterAnnLines(to_ann_lines(doc.annotations[out.pos + 1],
                                         out.taken))
    /\ UNCHANGED <<doc, format>>
    /\ UNCHANGED streamVars
    /\ UNCHANGED otherVars

\* PubTatorDocument.to_json (350-353)
CallToJson == Call("json", to_json(doc))
\* PubTatorDocument.to_oa_jsonld (355-356)
CallToOaJsonld == Call("oa-jsonld", to_oa_jsonld(doc))
\* PubTatorDocument.to_wa_jsonld (358-359)
CallToWaJsonld == Call("wa-jsonld", to_wa_jsonld(doc))

SerInit ==
    /\ input \in SerInputs
    /\ ids = NoIds
    /\ validate = TRUE
    /\ lines = read_pubtator_document(input, LookaheadIterator(input), TRUE).fl
    /\ errors = 0
    /\ yielded = <<>>
    /\ status = "done"
    /\ passes = <<>>
    /\ doc = read_pubtator_document(input, LookaheadIterator(input), TRUE).doc
    /\ format \in Formats
    /\ out = NoOut
    /\ OtherIdle

SerNext ==
    \/ CallToAnnLines
    \/ CallToJson
    \/ CallToOaJsonld
    \/ CallToWaJsonld

SerSpec == SerInit /\ [][SerNext]_vars

-----------------------------------------------------------------------------
(* The norms of one span: the span is read by read_pubtator_document from a *)
(* record of one TEXT line and one span line, whose type is one of          *)
(* NormTypes and whose raw norm is absent or made of up to MaxTokens tokens *)

MaxTokens == 3

NormTokens ==
    {<<"7">>, <<"x">>, <<";">>, <<"|">>, <<":">>, <<"(", "T", "a", "x", ":", "7", ")">>, <<"(", "T", "a", "x", ":">>}

NormTypes ==
    {<<"G", "e", "n", "e">>, <<"C", "h", "e", "m", "i", "c", "a", "l">>, <<"S", "p", "e", "c", "i", "e", "s">>, <<"S", "N", "P">>, <<"D", "N", "A", "M", "u", "t", "a", "t", "i", "o", "n">>,
     <<"P", "r", "o", "t", "e", "i", "n", "M", "u", "t", "a", "t", "i", "o", "n">>, <<"D", "i", "s", "e", "a", "s", "e">>, <<"x", "G", "e", "n", "e">>, <<"S", "N", "P", "s">>}

\* the strings made of n tokens
RECURSIVE TokenStrings(_)
TokenStrings(n) ==
    IF n = 0 THEN {<<>>}
    ELSE {s \o t : s \in TokenStrings(n - 1), t \in NormTokens}

RawNorms == UNION {TokenStrings(n) : n \in 1..MaxTokens}

\* the span lines: without a norm field, or with the raw norm n
NormLines ==
    {<<"1", TAB, "0", TAB, "1", TAB, "a", TAB>> \o t : t \in NormTypes}
        \cup {<<"1", TAB, "0", TAB, "1", TAB, "a", TAB>> \o t \o <<TAB>> \o n :
                 t \in NormTypes, n \in RawNorms}

\* the records that read_pubtator_document accepts
NormInputs ==
    {i \in {<<SerText, l, Blank>> : l \in NormLines} :
        read_pubtator_document(i, LookaheadIterator(i), TRUE).exc = ""}

\* self.norms is read of the span of the Document
read_norms ==
    /\ format = "norms"
    /\ out.runs = 0
    /\ out' = [state |-> IF norms(doc.annotations[1]).exc = "" THEN "written"
                         ELSE "raised",
               exc |-> norms(doc.annotations[1]).exc,
               value |-> norms(doc.annotations[1]).norms,
               runs |-> 1, prev |-> <<>>]
    /\ UNCHANGED <<doc, format>>
    /\ UNCHANGED streamVars
    /\ UNCHANGED otherVars

NormInit ==
    /\ input \in NormInputs
    /\ ids = NoIds
    /\ validate = TRUE
    /\ lines = read_pubtator_document(input, LookaheadIterator(input), TRUE).fl
    /\ errors = 0
    /\ yielded = <<>>
    /\ status = "done"
    /\ passes = <<>>
    /\ doc = read_pubtator_document(input, LookaheadIterator(input), TRUE).doc
    /\ format = "norms"
    /\ out = NoOut
    /\ OtherIdle

NormNext == read_norms

NormSpec == NormInit /\ [][NormNext]_vars

-----------------------------------------------------------------------------
(* Records of the input, for the properties below.  A record is a maximal   *)
(* run of non-blank lines.  Entry k of passes tells that pass k of the main *)
(* loop started with first lines consumed, that the skip or the read of the *)
(* pass consumed the lines first+1 .. read, and that error recovery then    *)
(* consumed the lines read+1 .. last.                                       *)

NonBlank(i) == i \in 1..Len(input) /\ Strip(input[i]) # <<>>

\* the first and the last line of the record that holds the non-blank line i
RecStart(i) ==
    CHOOSE j \in 1..i :
        (\A m \in j..i : NonBlank(m)) /\ (j = 1 \/ ~NonBlank(j - 1))
RecEnd(i) ==
    CHOOSE j \in i..Len(input) :
        (\A m \in i..j : NonBlank(m)) /\ (j = Len(input) \/ ~NonBlank(j + 1))

RecStarts == {i \in 1..Len(input) : NonBlank(i) /\ RecStart(i) = i}

IsText(i) == is_text_line(input[i])
TextId(i) == TEXT_RE(rstrip_nl(input[i])).docid
IsAnn(i) == is_span_line(input[i]) \/ is_rel_line(input[i])

\* the record that starts at line s is one or more TEXT lines of one id
\* followed by zero or more SPAN and RELATION lines
WellFormed(s) ==
    \E k \in s..RecEnd(s) :
        /\ \A m \in s..k : IsText(m) /\ TextId(m) = TextId(s)
        /\ \A m \in (k + 1)..RecEnd(s) : IsAnn(m)

\* the record of line i is made of TEXT lines that do not all carry the
\* same id
MixedIds(i) ==
    /\ \A m \in RecStart(i)..RecEnd(i) : IsText(m)
    /\ \E a, b \in RecStart(i)..RecEnd(i) : TextId(a) # TextId(b)

\* a SPAN line whose norm field is non-empty without an alphanumeric
BadNorm(i) ==
    /\ is_span_line(input[i])
    /\ SPAN_RE(input[i]).norms # <<>>
    /\ ~NORM_RE(SPAN_RE(input[i]).norms)

\* the record that starts at s passes validation
Valid(s) == ~validate \/ \A m \in s..RecEnd(s) : ~BadNorm(m)

\* the record that starts at s was yielded by some pass, as a Document of id
\* TextId(s)
Yielded(s) ==
    \E k \in 1..Len(passes) :
        /\ passes[k].kind = "yield"
        /\ passes[k].first < s /\ RecEnd(s) <= passes[k].read
        /\ passes[k].doc.id = TextId(s)

\* the record whose lines the read of the error pass k consumed
FailedRecord(k) ==
    RecStart(CHOOSE i \in (passes[k].first + 1)..passes[k].read : NonBlank(i))

ErrorPasses == {k \in 1..Len(passes) : passes[k].kind = "error"}

\* blank lines stand between records only
Separated ==
    \A i \in 1..Len(input) :
        ~NonBlank(i) => (\E a \in 1..(i - 1) : NonBlank(a))
                        /\ (\E b \in (i + 1)..Len(input) : NonBlank(b))

-----------------------------------------------------------------------------
(* Properties of the document stream                                        *)

\* C1: iterating read_pubtator never propagates the exception of a
\* record-level failure to the caller, with or without an id filter: no
\* ParseError, the one raised while peeking the next record's id for the id
\* filter included, leaves the generator.
C1_NeverPropagates ==
    status = "raised" => passes[Len(passes)].exc # "ParseError"

\* C2: no Document is yielded that is built from a line of a record whose
\* TEXT lines do not all carry the same document id, whatever the number of
\* its TEXT lines.
C2_MixedRecordNotYielded ==
    \A k \in 1..Len(passes) :
        passes[k].kind = "yield" =>
            \A i \in (passes[k].first + 1)..passes[k].read :
                NonBlank(i) => ~MixedIds(i)

\* C3: when only blank lines remain the stream ends without a further
\* Document and without an error, so every yielded Document has an id and no
\* exception leaves a pass that started with only blank lines left.
C3_BlankTailEndsStream ==
    /\ \A i \in 1..Len(yielded) : yielded[i].id # None
    /\ \A k \in 1..Len(passes) :
          (\A m \in (passes[k].first + 1)..Len(input) : ~NonBlank(m))
              => passes[k].kind \notin {"raise", "error"}

\* C4: a well-formed final record of TEXT lines only that ends at the end
\* of the input is yielded as a Document, and no error is counted for it.
C4_FinalTextRecordYielded ==
    \A s \in RecStarts :
        ( /\ status = "done"
          /\ ids = NoIds
          /\ RecEnd(s) = Len(input)
          /\ \A m \in s..RecEnd(s) : IsText(m) /\ TextId(m) = TextId(s) )
        => /\ Yielded(s)
           /\ \A k \in ErrorPasses : FailedRecord(k) # s

\* C5: with a non-empty set of wanted ids and an input of well-formed
\* records separated by blank lines, the Documents yielded are exactly the
\* records whose id is wanted, and no error is counted.
C5_FilterYieldsWanted ==
    ( /\ ids \notin {NoIds, {}}
      /\ Separated
      /\ \A s \in RecStarts : WellFormed(s) /\ Valid(s) )
    => /\ status # "raised"
       /\ errors = 0
       /\ status = "done" =>
             \A s \in RecStarts : Yielded(s) <=> TextId(s) \in ids

\* C6: whenever ids is not None, the empty set included, every yielded
\* Document (that has an id) has an id that is a member of ids.
C6_YieldedIdsWanted ==
    ids # NoIds =>
        \A i \in 1..Len(yielded) : yielded[i].id # None => yielded[i].id \in ids

\* C7: the error counter grows once per failed record: no record has the
\* counter incremented for it more than once (here: for two ParseErrors).
C7_OneErrorPerRecord ==
    \A k, l \in ErrorPasses :
        ( /\ passes[k].exc = "ParseError" /\ passes[l].exc = "ParseError"
          /\ FailedRecord(k) = FailedRecord(l) ) => k = l

\* C8: after a record is dropped for a norm without alphanumerics (a
\* ValueError, counted once), the recovery discards no line of the following
\* record, and the following well-formed record is yielded.
C8_NextRecordYielded ==
    \A k \in ErrorPasses : \A s \in RecStarts :
        ( /\ status = "done"
          /\ passes[k].exc = "ValueError"
          /\ s > passes[k].read
          /\ \A m \in (passes[k].read + 1)..(s - 1) : ~NonBlank(m)
          /\ WellFormed(s) /\ Valid(s)
          /\ ids \in {NoIds, {}} \/ TextId(s) \in ids )
        => passes[k].last < s /\ Yielded(s)

\* the part of C8 that holds: the following record is yielded unless it is
\* made of TEXT lines only and ends the input (the case of C4)
C8_NextRecordYieldedUnlessFinalText ==
    \A k \in ErrorPasses : \A s \in RecStarts :
        ( /\ status = "done"
          /\ passes[k].exc = "ValueError"
          /\ s > passes[k].read
          /\ \A m \in (passes[k].read + 1)..(s - 1) : ~NonBlank(m)
          /\ WellFormed(s) /\ Valid(s)
          /\ ids \in {NoIds, {}} \/ TextId(s) \in ids
          /\ ~(RecEnd(s) = Len(input) /\ \A m \in s..RecEnd(s) : IsText(m)) )
        => passes[k].last < s /\ Yielded(s)

\* the part of C8 that holds: the recovery after a ValueError consumes blank
\* lines only when a TEXT line follows them
C8_RecoveryKeepsNextRecord ==
    \A k \in ErrorPasses : \A s \in RecStarts :
        ( /\ passes[k].exc = "ValueError"
          /\ s > passes[k].read
          /\ \A m \in (passes[k].read + 1)..(s - 1) : ~NonBlank(m)
          /\ IsText(s) )
        => passes[k].last = s - 1

\* the lines first+1 .. read of pass k that are SPAN lines
SpanLinesOf(k) ==
    {i \in (passes[k].first + 1)..passes[k].read : is_span_line(input[i])}

\* the span of a Document d whose text is not at its offsets
Mismatch(d, a) ==
    a.kind = "span" /\ Slice(DocText(d), a.start, a.end) # a.text

\* C9: a span whose text differs from the document text at its offsets
\* produces only a warning.  Validation raises only for a span whose norm
\* has no alphanumeric character; a pass that warned without such a span
\* yields its Document, and its annotations are those of its lines.
C9_MismatchOnlyWarns ==
    \A k \in 1..Len(passes) :
        /\ passes[k].exc = "ValueError" => \E i \in SpanLinesOf(k) : BadNorm(i)
        /\ (passes[k].warnings > 0 /\ \A i \in SpanLinesOf(k) : ~BadNorm(i))
              => /\ passes[k].kind = "yield"
                 /\ \E a \in {passes[k].doc.annotations[j] :
                                j \in 1..Len(passes[k].doc.annotations)} :
                        Mismatch(passes[k].doc, a)
                 /\ \A j \in 1..Len(passes[k].doc.annotations) :
                        passes[k].doc.annotations[j].kind = "span" =>
                          \E i \in SpanLinesOf(k) :
                            passes[k].doc.annotations[j]
                                = Span_from_string(input[i]).ann

\* C9 happens: a Document was yielded with a span whose text is not at its
\* offsets, a warning was issued and no error was counted
C9_Witness ==
    /\ errors = 0
    /\ \E k \in 1..Len(passes) :
          /\ passes[k].kind = "yield"
          /\ passes[k].warnings > 0
          /\ \E j \in 1..Len(passes[k].doc.annotations) :
                Mismatch(passes[k].doc, passes[k].doc.annotations[j])


\* the Document holds a RelationAnnotation
HasRelation ==
    \E i \in 1..Len(doc.annotations) : doc.annotations[i].kind = "rel"

\* C10: a serializer run on a Document that holds a RelationAnnotation
\* never propagates the exception the relation raises (the relation is
\* skipped instead), whichever of the four formats is written.
C10_RelationNeverPropagates ==
    (out.state # "none" /\ HasRelation)
        => out.exc \notin {"NotImplementedError", "AttributeError"}

\* what the code does instead: the relation raises in each of the four
\* formats, unless a span before it raised first (ValueError of norms)
C10_RelationRaises ==
    (out.runs >= 1 /\ HasRelation)
        => /\ out.state = "raised"
           /\ out.exc = "ValueError"
                \/ out.exc = (IF format \in {"standoff", "json"}
                              THEN "NotImplementedError"
                              ELSE "AttributeError")

-----------------------------------------------------------------------------
(* What the data model says of a Document, for the properties of the        *)
(* serializers                                                              *)

\* the span annotations of a Document, in annotation order
Spans(d) == SelectSeq(d.annotations, LAMBDA a : a.kind = "span")

\* how many times the character c is in s
Count(s, c) == Cardinality({i \in 1..Len(s) : s[i] = c})

\* how many identifiers the raw norm of the span a holds: none if it is
\* absent or blank, else its ';'-separated fields, else its '|'-separated
\* fields for the type Chemical, else one
IdCount(a) ==
    IF a.norms = None \/ Strip(a.norms) = <<>> THEN 0
    ELSE IF Count(a.norms, ";") > 0 THEN Count(a.norms, ";") + 1
    ELSE IF a.type = <<"C", "h", "e", "m", "i", "c", "a", "l">> /\ Count(a.norms, "|") > 0
    THEN Count(a.norms, "|") + 1
    ELSE 1

\* the identifiers of the spans before span j of ss
RECURSIVE IdsBefore(_, _)
IdsBefore(ss, j) ==
    IF j <= 1 THEN 0 ELSE IdsBefore(ss, j - 1) + IdCount(ss[j - 1])

\* the standoff lines of the spans before span j of ss
LinesBefore(ss, j) == (j - 1) + IdsBefore(ss, j)

\* the identifier a standoff line starts with
LineId(l) == SubSeq(l, 1, RunNotIn(l, 1, {TAB}))

\* what follows the identifier and the tab of a standoff line
LineBody(l) == From(l, Len(LineId(l)) + 2)

\* the T identifier an N line refers to, <<>> if it is no Reference line
LineRef(l) ==
    IF SubSeq(LineBody(l), 1, 10) = <<"R", "e", "f", "e", "r", "e", "n", "c", "e", " ">>
    THEN SubSeq(LineBody(l), 11, 10 + RunNotIn(LineBody(l), 11, {" "}))
    ELSE <<>>

\* the lines v give span j of ss one T line with the identifier T<j>, then
\* one N line for each of its identifiers, numbered on from those of the
\* spans before it and referring to T<j>
SpanNumbered(v, ss, j) ==
    /\ LineId(v[LinesBefore(ss, j) + 1]) = <<"T">> \o ToStr(j)
    /\ \A m \in 1..IdCount(ss[j]) :
          /\ LineId(v[LinesBefore(ss, j) + 1 + m])
                = <<"N">> \o ToStr(IdsBefore(ss, j) + m)
          /\ LineRef(v[LinesBefore(ss, j) + 1 + m]) = <<"T">> \o ToStr(j)

\* the lines v are those of the spans ss and of nothing else, numbered in
\* order, and no identifier is there twice
StandoffNumbered(v, ss) ==
    /\ Len(v) = LinesBefore(ss, Len(ss) + 1)
    /\ \A j \in 1..Len(ss) : SpanNumbered(v, ss, j)
    /\ \A p, q \in 1..Len(v) : p # q => LineId(v[p]) # LineId(v[q])

\* C11: in the standoff serialization of a Document the j-th span gets the
\* identifier T<j>, the N identifiers are N1, N2, ... in the order of the
\* lines, no identifier is minted twice, each span gives one T line and then
\* one N line for each of its identifiers, each N line refers to the T
\* identifier of its span, and a second serialization of the Document gives
\* the same lines.
C11_StandoffNumbering ==
    (format = "standoff" /\ out.runs >= 1)
        => /\ StandoffNumbered(out.value, Spans(doc))
           /\ out.runs >= 2 => out.value = out.prev

\* the numbering of C11 in every serialization that no span makes raise
C11_NumberingOfWrittenStandoff ==
    (format = "standoff" /\ out.runs >= 1 /\ out.exc = "")
        => /\ StandoffNumbered(out.value, Spans(doc))
           /\ out.runs >= 2 => out.value = out.prev

\* the entries a span gives in a list of dicts: one for each identifier,
\* one if it has none
EntryCount(a) == IF IdCount(a) = 0 THEN 1 ELSE IdCount(a)

\* the entries of the spans before span j of ss
RECURSIVE EntriesBefore(_, _)
EntriesBefore(ss, j) ==
    IF j <= 1 THEN 0 ELSE EntriesBefore(ss, j - 1) + EntryCount(ss[j - 1])

\* the identifier of an entry of a JSON-LD list
EntryId(e) == IF "@id" \in DOMAIN e THEN e["@id"] ELSE e.id

\* the identifier with the index n in the JSON-LD output of the Document id_
IndexedId(fmt, id_, n) ==
    IF fmt = "oa-jsonld"
    THEN <<"p", "u", "b", "m", "e", "d", "/">> \o id_ \o <<"/", "a", "n", "n", "o", "t", "a", "t", "i", "o", "n", "s", "/">> \o ToStr(n)
    ELSE <<"P", "M", "I", "D", ":">> \o id_ \o <<"/", "a", "n", "n", "/">> \o ToStr(n)

\* the target of the span a in the JSON-LD output of the Document id_
TargetOf(fmt, id_, a) ==
    (IF fmt = "oa-jsonld" THEN <<"p", "u", "b", "m", "e", "d", "/">> ELSE <<"P", "M", "I", "D", ":">>) \o id_
        \o <<"/", "t", "e", "x", "t", "#", "c", "h", "a", "r", "=">> \o ToStr(a.start) \o <<",">> \o ToStr(a.end)

\* the entries v are those of the spans ss: span j has EntryCount of them in
\* a row after those of the spans before it, entry i has the index i - 1,
\* and no identifier is there twice
Indexed(v, ss, fmt, id_) ==
    /\ Len(v) = EntriesBefore(ss, Len(ss) + 1)
    /\ \A i \in 1..Len(v) : EntryId(v[i]) = IndexedId(fmt, id_, i - 1)
    /\ \A j \in 1..Len(ss) : \A m \in 1..EntryCount(ss[j]) :
          /\ v[EntriesBefore(ss, j) + m].target = TargetOf(fmt, id_, ss[j])
          /\ v[EntriesBefore(ss, j) + m].text = ss[j].text
    /\ \A p, q \in 1..Len(v) : p # q => EntryId(v[p]) # EntryId(v[q])

\* C12: for a Document of spans both JSON-LD serializers give the entries
\* the indices 0, 1, ..., N-1 in output order, N the sum over the spans of
\* the number of their identifiers (1 for a span with none): a span with k
\* identifiers takes k indices in a row, the next span goes on from there,
\* and no two entries share an identifier.
C12_JsonldIndices ==
    (format \in {"oa-jsonld", "wa-jsonld"} /\ out.runs >= 1 /\ ~HasRelation)
        => Indexed(out.value, Spans(doc), format, doc.id)

\* the indices of C12 in every JSON-LD output that no span makes raise
C12_IndicesOfWrittenJsonld ==
    (format \in {"oa-jsonld", "wa-jsonld"} /\ out.runs >= 1 /\ out.exc = "")
        => Indexed(out.value, Spans(doc), format, doc.id)

\* the record the JSON serializer owes the span a for the identifier of
\* its entry e: the start, end, text and display type of the span, and a
\* norm key exactly when the span has an identifier
RecordOf(e, a) ==
    /\ e.start = a.start
    /\ e.end = a.end
    /\ e.text = a.text
    /\ e.type = (IF a.type \in {<<"D", "N", "A", "M", "u", "t", "a", "t", "i", "o", "n">>, <<"P", "r", "o", "t", "e", "i", "n", "M", "u", "t", "a", "t", "i", "o", "n">>, <<"S", "N", "P">>}
                 THEN <<"M", "u", "t", "a", "t", "i", "o", "n">> ELSE a.type)
    /\ ("norm" \in DOMAIN e) = (IdCount(a) > 0)
    /\ DOMAIN e \subseteq {"start", "end", "text", "type", "norm"}

\* the records v are those of the spans ss: span j has EntryCount of them
\* in a row after those of the spans before it
Recorded(v, ss) ==
    /\ Len(v) = EntriesBefore(ss, Len(ss) + 1)
    /\ \A j \in 1..Len(ss) : \A m \in 1..EntryCount(ss[j]) :
          RecordOf(v[EntriesBefore(ss, j) + m], ss[j])

\* C13: the JSON serializer gives, for each span in annotation order, one
\* record for each of its identifiers, with the start, end, text and display
\* type of the span; the norm key is there exactly when the identifier is
\* not null, and a span whose raw norm is absent, empty or blank gives one
\* record without a norm key.
C13_JsonRecords ==
    (format = "json" /\ out.runs >= 1 /\ ~HasRelation)
        => /\ out.exc = ""
           /\ Recorded(out.value.annotations, Spans(doc))

\* the records of C13 in every JSON output that no span makes raise
C13_RecordsOfWrittenJson ==
    (format = "json" /\ out.runs >= 1 /\ out.exc = "")
        => Recorded(out.value.annotations, Spans(doc))

\* the number after the k-th character of the target t, read up to the
\* first character that is no digit
NumberAt(t, k) == ToInt(SubSeq(t, k + 1, k + RunIn(t, k + 1, AsciiDigit)))

\* the start and the end offset in a JSON-LD target '<url>/text#char=s,e'
TargetStart(t) == NumberAt(t, RunNotIn(t, 1, {"="}) + 1)
TargetEnd(t) == NumberAt(t, RunNotIn(t, 1, {","}) + 1)

\* the value of the key k of the dict e, None if e has no such key
Get(e, k) == IF k \in DOMAIN e THEN e[k] ELSE None

\* the facts the entry e of an output in the format fmt encodes
Facts(fmt, e) ==
    CASE fmt = "json" ->
            [start |-> e.start, end |-> e.end, text |-> e.text,
             type |-> e.type, norm |-> Get(e, "norm")]
      [] fmt = "oa-jsonld" ->
            [start |-> TargetStart(e.target), end |-> TargetEnd(e.target),
             text |-> e.text, type |-> e["@type"], norm |-> Get(e, "body")]
      [] fmt = "wa-jsonld" ->
            [start |-> TargetStart(e.target), end |-> TargetEnd(e.target),
             text |-> e.text, type |-> e.body.type,
             norm |-> Get(e.body, "id")]

\* the annotation list of what a serializer left in the format fmt, empty if
\* it raised
ListOf(fmt, r) ==
    IF r.exc # "" THEN <<>>
    ELSE IF fmt = "json" THEN r.value.annotations
    ELSE r.value

\* the facts of the annotation list of r, entry by entry
FactsOf(fmt, r) ==
    [i \in 1..Len(ListOf(fmt, r)) |-> Facts(fmt, ListOf(fmt, r)[i])]

\* C14: for a Document of spans the JSON, the OA-JSON-LD and the WA-JSON-LD
\* output encode the same facts: the three annotation lists are as long as
\* each other and their i-th entries agree on the start and end offsets,
\* the text, the display type and the identifier (absent in all three or
\* the same in all three).
C14_SameFacts ==
    (format \in {"json", "oa-jsonld", "wa-jsonld"} /\ out.runs >= 1
        /\ ~HasRelation)
        => /\ FactsOf(format, out) = FactsOf("json", to_json(doc))
           /\ FactsOf(format, out) = FactsOf("oa-jsonld", to_oa_jsonld(doc))
           /\ FactsOf(format, out) = FactsOf("wa-jsonld", to_wa_jsonld(doc))

\* a WA-JSON-LD output is written for a Document of spans of which one has
\* two identifiers and one has none
C14_Witness ==
    /\ format = "wa-jsonld"
    /\ out.runs >= 1
    /\ out.exc = ""
    /\ ~HasRelation
    /\ \E j \in 1..Len(Spans(doc)) : IdCount(Spans(doc)[j]) = 2
    /\ \E j \in 1..Len(Spans(doc)) : IdCount(Spans(doc)[j]) = 0
    /\ Len(out.value) = 3

\* what follows, in the string s of a JSON-LD entry, the document URL made
\* of a scheme as long as scheme and of the Document id id_
AfterUrl(s, scheme, id_) == From(s, Len(scheme) + Len(id_) + 1)

\* the WA-JSON-LD entry that differs from the OA-JSON-LD entry e only as
\* the claim C14 says: the keys @id and @type are named id and type, the
\* identifier is body.id and not a bare body, and the document URL is
\* PMID:<id> and not pubmed/<id>
OaAsWaStated(e, id_) ==
    [id |-> <<"P", "M", "I", "D", ":">> \o id_ \o AfterUrl(e["@id"], <<"p", "u", "b", "m", "e", "d", "/">>, id_),
     type |-> e["@type"],
     target |-> <<"P", "M", "I", "D", ":">> \o id_ \o AfterUrl(e.target, <<"p", "u", "b", "m", "e", "d", "/">>, id_),
     text |-> e.text]
    @@ (IF "body" \in DOMAIN e THEN [body |-> [id |-> e.body]] ELSE <<>>)

\* the WA-JSON-LD entry of the OA-JSON-LD entry e as the code makes it:
\* besides the differences above, the local path of the identifier is
\* /ann/<n> and not /annotations/<n>, the type is the constant Span and the
\* display type is body.type, so that every entry has a body
OaAsWa(e, id_) ==
    [id |-> <<"P", "M", "I", "D", ":">> \o id_ \o <<"/", "a", "n", "n", "/">>
              \o From(AfterUrl(e["@id"], <<"p", "u", "b", "m", "e", "d", "/">>, id_), 14),
     type |-> <<"S", "p", "a", "n">>,
     target |-> <<"P", "M", "I", "D", ":">> \o id_ \o AfterUrl(e.target, <<"p", "u", "b", "m", "e", "d", "/">>, id_),
     text |-> e.text,
     body |-> (IF "body" \in DOMAIN e THEN [id |-> e.body] ELSE <<>>)
              @@ [type |-> e["@type"]]]

\* C14 as stated: the three outputs encode the same facts, and the OA and
\* the WA output differ only in the key names, in the identifier being a
\* bare body or body.id, and in the document URL scheme.
C14_DifferOnlyAsStated ==
    /\ C14_SameFacts
    /\ (format = "wa-jsonld" /\ out.runs >= 1 /\ out.exc = "")
          => \A i \in 1..Len(out.value) :
                out.value[i] = OaAsWaStated(to_oa_jsonld(doc).value[i], doc.id)

\* C14 amended: the three outputs encode the same facts, and the WA output
\* differs from the OA output in the key names, in the local path of the
\* entry identifier (/ann/<n> for /annotations/<n>), in the type being the
\* constant Span with the display type kept in body.type, in the
\* identifier being body.id and not a bare body, and in the document URL
\* scheme.
C14_SameFactsOtherShape ==
    /\ C14_SameFacts
    /\ (format = "wa-jsonld" /\ out.runs >= 1 /\ out.exc = "")
          => /\ Len(out.value) = Len(to_oa_jsonld(doc).value)
             /\ \A i \in 1..Len(out.value) :
                   out.value[i] = OaAsWa(to_oa_jsonld(doc).value[i], doc.id)

\* the display type of the span a
DisplayType(a) ==
    IF a.type \in {<<"D", "N", "A", "M", "u", "t", "a", "t", "i", "o", "n">>, <<"P", "r", "o", "t", "e", "i", "n", "M", "u", "t", "a", "t", "i", "o", "n">>, <<"S", "N", "P">>}
    THEN <<"M", "u", "t", "a", "t", "i", "o", "n">> ELSE a.type

\* what a serializer has rendered in the format fmt: the lines given so far
\* for standoff, the annotation list for the other formats
Rendered(fmt, r) == IF fmt = "standoff" THEN r.value ELSE ListOf(fmt, r)

\* the places of span j of ss in what is rendered in the format fmt: its
\* T line, or its entries
PlacesOf(fmt, ss, j) ==
    IF fmt = "standoff" THEN {LinesBefore(ss, j) + 1}
    ELSE {EntriesBefore(ss, j) + m : m \in 1..EntryCount(ss[j])}

\* the type the rendered line or entry e shows
RenderedType(fmt, e) ==
    CASE fmt = "standoff" ->
            SubSeq(LineBody(e), 1, RunNotIn(LineBody(e), 1, {" "}))
      [] fmt = "json" -> e.type
      [] fmt = "oa-jsonld" -> e["@type"]
      [] fmt = "wa-jsonld" -> e.body.type

\* C15: each of the four serializers renders a span of the type
\* DNAMutation, ProteinMutation or SNP with the display type Mutation and a
\* span of any other type with its own type.
C15_DisplayType ==
    out.runs >= 1
        => \A j \in 1..Len(Spans(doc)) :
              \A p \in PlacesOf(format, Spans(doc), j) :
                 p <= Len(Rendered(format, out))
                    => RenderedType(format, Rendered(format, out)[p])
                          = DisplayType(Spans(doc)[j])

\* a Document with a SNP span and a Gene span has been rendered whole
C15_Witness ==
    /\ out.runs >= 1
    /\ out.exc = ""
    /\ Len(Spans(doc)) = 2
    /\ \E j \in 1..2 : Spans(doc)[j].type = <<"S", "N", "P">>
    /\ \E j \in 1..2 : Spans(doc)[j].type = <<"G", "e", "n", "e">>
    /\ Len(Rendered(format, out)) >= 2

-----------------------------------------------------------------------------
(* What the data model says of the norms of a span                          *)

\* the span whose norms are read
TheSpan == doc.annotations[1]

\* the place of the k-th c in s: 0 for k = 0, past the end if s has less
NthSep(s, c, k) ==
    IF k = 0 THEN 0
    ELSE IF k > Count(s, c) THEN Len(s) + 1
    ELSE CHOOSE i \in 1..Len(s) : s[i] = c /\ Count(SubSeq(s, 1, i), c) = k

\* the k-th of the fields of s that c separates
Field(s, c, k) == SubSeq(s, NthSep(s, c, k - 1) + 1, NthSep(s, c, k) - 1)

\* the k-th identifier of the raw norm of the span a
IdField(a, k) ==
    IF Count(a.norms, ";") > 0 THEN Field(a.norms, ";", k)
    ELSE IF a.type = <<"C", "h", "e", "m", "i", "c", "a", "l">> /\ Count(a.norms, "|") > 0
    THEN Field(a.norms, "|", k)
    ELSE a.norms

\* C16: for a span with a raw norm that is not blank, norms is as long as
\* the ';'-separated fields of the raw norm if it holds a ';', else as the
\* '|'-separated fields if the type is Chemical and it holds a '|', else 1
\* (a '|' in the raw norm of another type stays inside one identifier).
C16_NormsLength ==
    (format = "norms" /\ out.runs >= 1 /\ IdCount(TheSpan) > 0)
        => /\ out.exc = ""
           /\ Len(out.value) = IdCount(TheSpan)

\* the length of C16 whenever norms returns
C16_LengthOfReturnedNorms ==
    (format = "norms" /\ out.runs >= 1 /\ IdCount(TheSpan) > 0
        /\ out.exc = "")
        => Len(out.value) = IdCount(TheSpan)

\* the namespace of a type as C17 states it: by the type being Species,
\* Gene, Chemical or one of the mutation types
StatedNamespace(t) ==
    CASE t = <<"S", "p", "e", "c", "i", "e", "s">> -> <<"N", "C", "B", "I", "T", "a", "x", "o", "n">>
      [] t = <<"G", "e", "n", "e">> -> <<"N", "C", "B", "I", "G", "E", "N", "E">>
      [] t = <<"C", "h", "e", "m", "i", "c", "a", "l">> -> <<"M", "E", "S", "H">>
      [] t \in {<<"D", "N", "A", "M", "u", "t", "a", "t", "i", "o", "n">>, <<"P", "r", "o", "t", "e", "i", "n", "M", "u", "t", "a", "t", "i", "o", "n">>, <<"S", "N", "P">>} -> t
      [] OTHER -> <<"u", "n", "k", "n", "o", "w", "n">>

\* the namespace of a type as norm_namespace documents it: by the type
\* holding one of the names, the first of them in this order
HeldNamespace(t) ==
    IF Contains(t, <<"S", "p", "e", "c", "i", "e", "s">>) THEN <<"N", "C", "B", "I", "T", "a", "x", "o", "n">>
    ELSE IF Contains(t, <<"G", "e", "n", "e">>) THEN <<"N", "C", "B", "I", "G", "E", "N", "E">>
    ELSE IF Contains(t, <<"C", "h", "e", "m", "i", "c", "a", "l">>) THEN <<"M", "E", "S", "H">>
    ELSE IF Contains(t, <<"D", "N", "A", "M", "u", "t", "a", "t", "i", "o", "n">>) \/ Contains(t, <<"P", "r", "o", "t", "e", "i", "n", "M", "u", "t", "a", "t", "i", "o", "n">>)
            \/ Contains(t, <<"S", "N", "P">>)
    THEN t
    ELSE <<"u", "n", "k", "n", "o", "w", "n">>

\* f is of the form <digits>(Tax:<digits>)
IsTaxForm(f) ==
    \E a, b \in 1..Len(f) :
        /\ Len(f) = a + 5 + b + 1
        /\ AllIn(SubSeq(f, 1, a), Digit)
        /\ SubSeq(f, a + 1, a + 5) = <<"(", "T", "a", "x", ":">>
        /\ AllIn(SubSeq(f, a + 6, a + 5 + b), Digit)
        /\ f[Len(f)] = ")"

\* the digits f starts with
LeadingDigits(f) == SubSeq(f, 1, RunIn(f, 1, Digit))

\* f with the namespace ns in front unless it holds a ':'
Prefixed(f, ns) == IF Count(f, ":") > 0 THEN f ELSE ns \o <<":">> \o f

\* C17: an identifier of the raw norm that holds a ':' is passed through
\* unchanged, and any other is given the prefix '<namespace>:', the
\* namespace being NCBITaxon for the type Species, NCBIGENE for Gene, MESH
\* for Chemical, the type itself for DNAMutation, ProteinMutation and SNP,
\* and unknown for every other type.
C17_NamespaceAsStated ==
    (format = "norms" /\ out.runs >= 1 /\ IdCount(TheSpan) > 0)
        => /\ out.exc = ""
           /\ Len(out.value) = IdCount(TheSpan)
           /\ \A k \in 1..IdCount(TheSpan) :
                 out.value[k] = Prefixed(IdField(TheSpan, k),
                                         StatedNamespace(TheSpan.type))

\* the identifier v is the digits d with a namespace in front
ReducedTo(v, d) ==
    /\ Len(v) > Len(d) + 1
    /\ SubSeq(v, Len(v) - Len(d), Len(v)) = <<":">> \o d
    /\ Count(v, "(") = 0

\* C18: norms is defined for every raw norm: an identifier of the form
\* <digits>(Tax:<digits>) is cut to its leading digits and given the
\* namespace, and no identifier makes norms raise, not even one that holds
\* '(Tax:' without being of that form.
C18_NormsTotal ==
    (format = "norms" /\ out.runs >= 1)
        => /\ out.exc = ""
           /\ \A k \in 1..IdCount(TheSpan) :
                 IsTaxForm(IdField(TheSpan, k))
                    => ReducedTo(out.value[k],
                                 LeadingDigits(IdField(TheSpan, k)))

\* norms raises exactly when an identifier holds '(Tax:' and is not of the
\* form <digits>(Tax:<digits>), and cuts the identifiers of that form
C18_RaisesOnOtherTaxForm ==
    (format = "norms" /\ out.runs >= 1)
        => /\ (out.exc = "ValueError")
                 = (\E k \in 1..IdCount(TheSpan) :
                       /\ Contains(IdField(TheSpan, k), <<"(", "T", "a", "x", ":">>)
                       /\ ~IsTaxForm(IdField(TheSpan, k)))
           /\ out.exc \in {"", "ValueError"}
           /\ out.exc = ""
                 => \A k \in 1..IdCount(TheSpan) :
                       IsTaxForm(IdField(TheSpan, k))
                          => ReducedTo(out.value[k],
                                       LeadingDigits(IdField(TheSpan, k)))

\* an identifier of the raw norm of the span a holds '(Tax:' without being
\* of the form <digits>(Tax:<digits>)
HasOtherTaxForm(a) ==
    \E k \in 1..IdCount(a) :
        /\ Contains(IdField(a, k), <<"(", "T", "a", "x", ":">>)
        /\ ~IsTaxForm(IdField(a, k))

\* C17 amended: an identifier of the form <digits>(Tax:<digits>) is cut to
\* its leading digits; after that an identifier that holds a ':' is passed
\* through unchanged and any other is given the prefix '<namespace>:', the
\* namespace being NCBITaxon if the type holds Species, else NCBIGENE if it
\* holds Gene, else MESH if it holds Chemical, else the type itself if it
\* holds DNAMutation, ProteinMutation or SNP, else unknown; norms returns
\* nothing and raises ValueError if an identifier holds '(Tax:' without
\* being of that form.
C17_NamespaceByHeldName ==
    (format = "norms" /\ out.runs >= 1 /\ IdCount(TheSpan) > 0)
        => IF HasOtherTaxForm(TheSpan) THEN out.exc = "ValueError"
           ELSE /\ out.exc = ""
                /\ Len(out.value) = IdCount(TheSpan)
                /\ \A k \in 1..IdCount(TheSpan) :
                      out.value[k] =
                         Prefixed(IF IsTaxForm(IdField(TheSpan, k))
                                  THEN LeadingDigits(IdField(TheSpan, k))
                                  ELSE IdField(TheSpan, k),
                                  HeldNamespace(TheSpan.type))

\* norms has been read of a span of the type xGene with two identifiers:
\* the first got the namespace of Gene, the second holds a ':' and is kept
C17_Witness ==
    /\ format = "norms"
    /\ out.runs >= 1
    /\ out.exc = ""
    /\ TheSpan.type = <<"x", "G", "e", "n", "e">>
    /\ Len(out.value) = 2
    /\ out.value[1] = <<"N", "C", "B", "I", "G", "E", "N", "E", ":", "7">>
    /\ Count(IdField(TheSpan, 2), ":") > 0
    /\ out.value[2] = IdField(TheSpan, 2)

-----------------------------------------------------------------------------
(* The stream over records whose span lines carry offsets in any order:     *)
(* a start at or after the end is accepted by SPAN_RE like any other.       *)

\* a span that ends before it starts
SpanReversed == <<"1", TAB, "1", TAB, "0", TAB, "b", TAB, "G">>
\* a span that ends where it starts
SpanEmpty == <<"1", TAB, "1", TAB, "1", TAB, "b", TAB, "G">>

OffsetPool == {Blank, Text1, SpanOk, SpanReversed, SpanEmpty, Garbage}

OffsetInputs == UNION {[1..n -> OffsetPool] : n \in 0..MaxLines}

OffsetInit ==
    /\ input \in OffsetInputs
    /\ ids \in IdChoices
    /\ validate \in BOOLEAN
    /\ lines = LookaheadIterator(input)
    /\ errors = 0
    /\ yielded = <<>>
    /\ status = "running"
    /\ passes = <<>>
    /\ doc = NoDoc
    /\ format = "none"
    /\ out = NoOut
    /\ OtherIdle

OffsetSpec == OffsetInit /\ [][Next]_vars

\* the span annotations of the Document d
SpanSet(d) ==
    {d.annotations[j] : j \in {i \in 1..Len(d.annotations) :
                                  d.annotations[i].kind = "span"}}

\* C19: every span annotation of every Document yielded by the stream has
\* its start before its end
C19_StartBeforeEnd ==
    \A k \in 1..Len(yielded) : \A a \in SpanSet(yielded[k]) : a.start < a.end

-----------------------------------------------------------------------------
(* How a yielded Document is assembled from the lines its pass consumed     *)

\* the passes that ran read_pubtator_document
ReadPasses ==
    {k \in 1..Len(passes) : passes[k].kind \in {"yield", "error"}}

YieldPasses == {k \in 1..Len(passes) : passes[k].kind = "yield"}

\* the lines the read of pass k consumed
Consumed(k) == (passes[k].first + 1)..passes[k].read

\* the section the TEXT line i gives, if any
SectionOf(m) ==
    IF Strip(m.text) # <<>> THEN << <<m.type, m.text>> >> ELSE <<>>

\* the sections of the TEXT lines among the lines a..b, in line order
RECURSIVE SectionsIn(_, _)
SectionsIn(a, b) ==
    IF a > b THEN <<>>
    ELSE (IF IsText(a) THEN SectionOf(TEXT_RE(rstrip_nl(input[a]))) ELSE <<>>)
         \o SectionsIn(a + 1, b)

\* the annotation the line i gives, if any
AnnotationOf(i) ==
    IF is_span_line(input[i]) THEN <<Span_from_string(input[i]).ann>>
    ELSE IF is_rel_line(input[i]) THEN <<Rel_from_string(input[i]).ann>>
    ELSE <<>>

\* the annotations of the annotation lines among the lines a..b, in line
\* order
RECURSIVE AnnotationsIn(_, _)
AnnotationsIn(a, b) ==
    IF a > b THEN <<>> ELSE AnnotationOf(a) \o AnnotationsIn(a + 1, b)

\* the Document of the yield pass k is made of the lines a..b
AssembledFrom(k, a, b) ==
    /\ \A i \in a..b : IsText(i) => TextId(i) = passes[k].doc.id
    /\ passes[k].doc.text_sections = SectionsIn(a, b)
    /\ passes[k].doc.annotations = AnnotationsIn(a, b)
    /\ \A i, j \in a..b : IsText(i) /\ IsAnn(j) => i < j

\* the read of pass k consumed the TEXT line i after the annotation line j
TextAfterAnnotation(k, j, i) ==
    /\ j \in Consumed(k) /\ i \in Consumed(k) /\ j < i
    /\ IsAnn(j) /\ IsText(i)

\* C20: every yielded Document is assembled from TEXT lines that all carry
\* its id, its text sections and its annotations are those of the lines its
\* pass consumed, in the order of the lines, and every annotation line comes
\* after all the TEXT lines; a read that meets a TEXT line after an
\* annotation line stops there with ParseError and yields nothing
C20_AssembledInSourceOrder ==
    /\ \A k \in YieldPasses :
          AssembledFrom(k, passes[k].first + 1, passes[k].read)
    /\ \A k \in ReadPasses : \A j, i \in Consumed(k) :
          TextAfterAnnotation(k, j, i)
              => /\ passes[k].kind = "error"
                 /\ passes[k].exc = "ParseError"
                 /\ passes[k].read = i

\* C20 happens: a Document was yielded with two text sections and two
\* different annotations
C20_Witness ==
    \E k \in YieldPasses :
        /\ Len(passes[k].doc.text_sections) >= 2
        /\ Len(passes[k].doc.annotations) >= 2
        /\ passes[k].doc.annotations[1] # passes[k].doc.annotations[2]

-----------------------------------------------------------------------------
(* Documents written as TEXT lines and read back by read_pubtator_document  *)

\* the most sections of a Document written
MaxSections == 2

SectionLabels == {<<"t">>, <<"a">>}
SectionTexts == {<<"a", "b">>, <<"c">>, <<" ">>}
SectionPool == {<<l, t>> : l \in SectionLabels, t \in SectionTexts}

RoundDocs ==
    {PubTatorDocument(<<"1">>, s, <<>>) :
        s \in UNION {[1..n -> SectionPool] : n \in 0..MaxSections}}

\* the TEXT line of the section s of the Document of id id_: a line that
\* TEXT_RE splits into id_, the label and the text
TextLineOf(id_, s) == id_ \o <<"|">> \o s[1] \o <<"|">> \o s[2]

\* the TEXT lines of the sections of d, in order
render_text(d) ==
    [i \in 1..Len(d.text_sections) |-> TextLineOf(d.id, d.text_sections[i])]

\* what may follow the TEXT lines: nothing, or the blank line that ends a
\* record
RoundTails == {<<>>, <<Blank>>}

\* the Document d is written as TEXT lines
Render ==
    /\ status = "built"
    /\ \E tail \in RoundTails : input' = render_text(doc) \o tail
    /\ lines' = LookaheadIterator(input')
    /\ status' = "rendered"
    /\ UNCHANGED <<ids, validate, errors, yielded, passes, doc, format, out>>
    /\ UNCHANGED otherVars

\* r is what read_pubtator_document gave
ParsedAs(r) ==
    [NoOut EXCEPT !.state = "parsed", !.exc = r.exc, !.value = r.doc]

\* the lines written are read by read_pubtator_document, which leaves the
\* reader after the lines it consumed
ParseBack ==
    /\ status = "rendered"
    /\ out' = ParsedAs(read_pubtator_document(input, lines, validate))
    /\ lines' = read_pubtator_document(input, lines, validate).fl
    /\ status' = "parsed"
    /\ UNCHANGED <<input, ids, validate, errors, yielded, passes, doc, format>>
    /\ UNCHANGED otherVars

RoundInit ==
    /\ input = <<>>
    /\ ids = NoIds
    /\ validate = TRUE
    /\ lines = LookaheadIterator(<<>>)
    /\ errors = 0
    /\ yielded = <<>>
    /\ status = "built"
    /\ passes = <<>>
    /\ doc \in RoundDocs
    /\ format = "none"
    /\ out = NoOut
    /\ OtherIdle

RoundNext ==
    \/ Render
    \/ ParseBack

RoundSpec == RoundInit /\ [][RoundNext]_vars

\* the lines read back gave a Document of the same text as d
ReadBack == out.exc = "" /\ DocText(out.value) = DocText(doc)

\* C21: the sections of any Document, written as TEXT lines and read back,
\* give a Document whose sections joined by a newline are the text of the
\* Document written
C21_RoundTrip == status = "parsed" => ReadBack

NonBlankSections(d) ==
    \A i \in 1..Len(d.text_sections) : Strip(d.text_sections[i][2]) # <<>>

\* the lines read end with a blank line
EndsRecord == input # <<>> /\ input[Len(input)] = Blank

\* C21, as far as it holds: a Document without blank sections whose TEXT
\* lines are followed by a blank line is read back with the same text, and
\* TEXT lines that end the input are not read back at all
C21_RoundTripBeforeBlankLine ==
    status = "parsed" =>
        /\ (EndsRecord /\ NonBlankSections(doc) => ReadBack)
        /\ (~EndsRecord /\ input # <<>> => out.exc = "AttributeError")

-----------------------------------------------------------------------------
(* read_pubtator run by several threads, each over its own input: the       *)
(* counter read_pubtator.errors is an attribute of the function, shared by  *)
(* all of them, and `read_pubtator.errors += 1` (456) loads the attribute,  *)
(* adds one and stores it, with nothing to keep another thread from         *)
(* running between the load and the store.                                  *)

\* the most threads
MaxThreads == 2

\* the inputs of the threads: one failed record, a Document, two failed
\* records, a Document and a failed record
ThreadInputs ==
    {<<Garbage>>, <<Text1, Blank>>, <<Garbage, Text1>>,
     <<Text1, Blank, Garbage>>}

\* a thread at the start of read_pubtator over src (445): pc is where it
\* is, loaded the value of the counter it loaded last, failed the number of
\* records that failed in it
Thread(src) ==
    [input |-> src, lines |-> LookaheadIterator(src), pc |-> "loop",
     loaded |-> 0, failed |-> 0]

\* the pass of the main loop the thread t is in
ThreadPass(t) ==
    Pass(threads[t].input, threads[t].lines, ids, validate)

ThreadLooping(t) == threads[t].pc = "loop" /\ bool(threads[t].lines)

\* read_pubtator_document returned a Document in the thread t (451)
ThreadYield(t) ==
    /\ ThreadLooping(t)
    /\ ThreadPass(t).kind = "yield"
    /\ threads' = [threads EXCEPT ![t].lines = ThreadPass(t).fl]
    /\ UNCHANGED errors

\* read_pubtator_document raised in the thread t: the value of the counter
\* is loaded (456)
ThreadLoad(t) ==
    /\ ThreadLooping(t)
    /\ ThreadPass(t).kind = "error"
    /\ threads' = [threads EXCEPT ![t].pc = "store", ![t].loaded = errors]
    /\ UNCHANGED errors

\* the value loaded plus one is stored in the counter, and the thread
\* recovers (456-457)
ThreadStore(t) ==
    /\ threads[t].pc = "store"
    /\ errors' = threads[t].loaded + 1
    /\ threads' = [threads EXCEPT ![t].pc = "loop",
                                  ![t].lines = ThreadPass(t).fl,
                                  ![t].failed = threads[t].failed + 1]

\* the reader of the thread t is exhausted: its generator returns (446)
ThreadReturn(t) ==
    /\ threads[t].pc = "loop"
    /\ ~bool(threads[t].lines)
    /\ threads' = [threads EXCEPT ![t].pc = "done"]
    /\ UNCHANGED errors

ThreadIdle ==
    UNCHANGED <<input, ids, validate, lines, yielded, status, passes, calls>>
    /\ UNCHANGED serVars
    /\ UNCHANGED toolVars

Yields == ThreadIdle /\ \E t \in 1..Len(threads) : ThreadYield(t)
Loads == ThreadIdle /\ \E t \in 1..Len(threads) : ThreadLoad(t)
Stores == ThreadIdle /\ \E t \in 1..Len(threads) : ThreadStore(t)
Returns == ThreadIdle /\ \E t \in 1..Len(threads) : ThreadReturn(t)

ThreadInit ==
    /\ input = <<>>
    /\ ids = NoIds
    /\ validate = TRUE
    /\ lines = LookaheadIterator(<<>>)
    /\ errors = 0
    /\ yielded = <<>>
    /\ status = "running"
    /\ passes = <<>>
    /\ doc = NoDoc
    /\ format = "none"
    /\ out = NoOut
    /\ calls = <<>>
    /\ ToolsIdle
    /\ \E n \in 1..MaxThreads : \E srcs \in [1..n -> ThreadInputs] :
          threads = [t \in 1..n |-> Thread(srcs[t])]

ThreadNext ==
    \/ Yields
    \/ Loads
    \/ Stores
    \/ Returns

ThreadSpec == ThreadInit /\ [][ThreadNext]_vars

\* the records that failed in the threads 1..n
RECURSIVE FailedIn(_)
FailedIn(n) == IF n = 0 THEN 0 ELSE threads[n].failed + FailedIn(n - 1)

AllReturned == \A t \in 1..Len(threads) : threads[t].pc = "done"

\* C22: when all the threads have returned, the counter is its initial
\* value (0) plus the number of records that failed in all the threads
C22_NoLostIncrement == AllReturned => errors = FailedIn(Len(threads))

\* C22, as far as it holds: the counter never exceeds the number of failed
\* records, it counts at least those of one thread, and it is exact
\* when one thread runs alone
C22_CountOfOneThread ==
    AllReturned =>
        /\ errors <= FailedIn(Len(threads))
        /\ \E t \in 1..Len(threads) : errors >= threads[t].failed
        /\ Len(threads) = 1 => errors = FailedIn(1)

-----------------------------------------------------------------------------
(* A LookaheadIterator used on its own: its user calls next on it, reads    *)
(* its lookahead, and may call next again once it is exhausted.             *)

\* the longest source of the reader, in lines
MaxSource == 3

\* the most calls made on the reader
MaxCalls == 5

SourceLines == {<<"a">>, <<"b">>}

Sources == UNION {[1..n -> SourceLines] : n \in 0..MaxSource}

\* next(fl) returned a line (51-52): r is what next gave
NextReturns ==
    /\ Len(calls) < MaxCalls
    /\ ~next(input, lines).stop
    /\ lines' = next(input, lines).fl
    /\ calls' = Append(calls, [op |-> "next", stop |-> FALSE,
                               line |-> next(input, lines).line])

\* next(fl) raised StopIteration: _advance has run before next(self._it)
\* raised (51-52)
NextStops ==
    /\ Len(calls) < MaxCalls
    /\ next(input, lines).stop
    /\ lines' = next(input, lines).fl
    /\ calls' = Append(calls, [op |-> "next", stop |-> TRUE, line |-> None])

\* fl.lookahead is read
Peek ==
    /\ Len(calls) < MaxCalls
    /\ calls' = Append(calls, [op |-> "peek", stop |-> FALSE,
                               line |-> lines.lookahead])
    /\ UNCHANGED lines

ReaderIdle ==
    UNCHANGED <<input, ids, validate, errors, yielded, status, passes,
                threads>>
    /\ UNCHANGED serVars
    /\ UNCHANGED toolVars

ReaderInit ==
    /\ input \in Sources
    /\ ids = NoIds
    /\ validate = TRUE
    /\ lines = LookaheadIterator(input)
    /\ errors = 0
    /\ yielded = <<>>
    /\ status = "running"
    /\ passes = <<>>
    /\ doc = NoDoc
    /\ format = "none"
    /\ out = NoOut
    /\ threads = <<>>
    /\ calls = <<>>
    /\ ToolsIdle

ReaderNext ==
    \/ NextReturns /\ ReaderIdle
    \/ NextStops /\ ReaderIdle
    \/ Peek /\ ReaderIdle

ReaderSpec == ReaderInit /\ [][ReaderNext]_vars

\* the lines the calls of next have returned, in order
RECURSIVE ReturnedBy(_)
ReturnedBy(cs) ==
    IF cs = <<>> THEN <<>>
    ELSE ReturnedBy(SubSeq(cs, 1, Len(cs) - 1))
         \o (IF cs[Len(cs)].op = "next" /\ ~cs[Len(cs)].stop
             THEN <<cs[Len(cs)].line>> ELSE <<>>)

Returned == ReturnedBy(calls)

\* the line the next call of next returns, None when it returns none
Upcoming ==
    IF Len(Returned) < Len(input) THEN input[Len(Returned) + 1] ELSE None

\* C23: the lookahead is the line the next call of next returns, and None
\* exactly when the source is exhausted; what a read of the lookahead gave
\* is what the following call of next returned or failed on, so that the
\* read consumed nothing; the calls of next have returned the lines of the
\* source once each, in the order of the source
C23_LookaheadCoherent ==
    /\ lines.lookahead = Upcoming
    /\ lines.lookahead = None <=> Len(Returned) = Len(input)
    /\ next(input, lines).stop <=> lines.lookahead = None
    /\ ~next(input, lines).stop => next(input, lines).line = lines.lookahead
    /\ Returned = SubSeq(input, 1, Len(Returned))
    /\ \A i \in 1..(Len(calls) - 1) :
          calls[i].op = "peek" /\ calls[i + 1].op = "next"
              => /\ calls[i + 1].stop <=> calls[i].line = None
                 /\ ~calls[i + 1].stop => calls[i + 1].line = calls[i].line

\* C23 happens: a source of two different lines was read to its end, with
\* a read of the lookahead before a call of next and a call after the end
C23_Witness ==
    /\ Len(input) >= 2 /\ input[1] # input[2]
    /\ Returned = input
    /\ \E i \in 1..(Len(calls) - 1) :
          calls[i].op = "peek" /\ calls[i + 1].op = "next"
          /\ ~calls[i + 1].stop
    /\ \E i \in 1..Len(calls) : calls[i].stop

\* the calls of next that raised StopIteration
Stopped == {i \in 1..Len(calls) : calls[i].op = "next" /\ calls[i].stop}

\* C24: after any calls of next, those made on the exhausted reader
\* included, the index is the number of lines returned so far
C24_IndexCountsReturned == lines.index = Len(Returned)

\* C24, as far as it holds: the index is the number of calls of next made
\* so far, the lines returned plus the calls that raised StopIteration
C24_IndexCountsCalls == lines.index = Len(Returned) + Cardinality(Stopped)

-----------------------------------------------------------------------------
(* Recovery after a failed read                                             *)

\* the lines recover_from_error consumed in the error pass k
Discarded(k) == (passes[k].read + 1)..passes[k].last

\* the reader was at the end of the input or at a TEXT line after n lines
AtTextOrEnd(n) == n = Len(input) \/ IsText(n + 1)

\* C25: when recover_from_error has returned, the lookahead is None or a
\* TEXT line; the lines it consumed are not TEXT lines; and it consumed
\* nothing if the lookahead was None or a TEXT line when it was called
C25_RecoveryStopsAtText ==
    \A k \in ErrorPasses :
        /\ AtTextOrEnd(passes[k].last)
        /\ \A i \in Discarded(k) : ~IsText(i)
        /\ AtTextOrEnd(passes[k].read) => passes[k].last = passes[k].read

\* C25 happens: a recovery discarded lines and stopped at a TEXT line
\* before the end of the input
C25_Witness ==
    \E k \in ErrorPasses :
        /\ Discarded(k) # {}
        /\ passes[k].last < Len(input)
        /\ IsText(passes[k].last + 1)

-----------------------------------------------------------------------------
(* The line number of the ParseError messages                               *)

ParseErrors == {k \in 1..Len(passes) : passes[k].exc = "ParseError"}

\* the line the ParseError of pass k is about, counted from 1: the last
\* line read_pubtator_document consumed, or the line at the lookahead of
\* skip_pubtator_document
Offending(k) ==
    IF passes[k].kind = "raise" THEN passes[k].read + 1 ELSE passes[k].read

\* C26: every ParseError cites the number of the offending line, counted
\* from 1
C26_CitesOffendingLine ==
    \A k \in ParseErrors : passes[k].cited = Offending(k)

\* C26, as far as it holds: the ParseErrors of read_pubtator_document cite
\* the number of the offending line counted from 1, that of
\* skip_pubtator_document cites it counted from 0
C26_SkipCitesLineBefore ==
    \A k \in ParseErrors :
        passes[k].cited =
            IF passes[k].kind = "raise" THEN Offending(k) - 1 ELSE Offending(k)

-----------------------------------------------------------------------------
(* The generator iterated to its end by a caller that never stops           *)
(* iterating: the inputs hold a line of each class (blank, TEXT of a wanted *)
(* id and of another, annotation, unclassifiable).                          *)

\* the longest input iterated to its end, in lines
MaxTermLines == 3

TermPool == {Blank, Text1, Text2, SpanOk, Garbage}

TermInputs == UNION {[1..n -> TermPool] : n \in 0..MaxTermLines}

TermIds == {NoIds, {<<"1">>}}

TermInit ==
    /\ input \in TermInputs
    /\ ids \in TermIds
    /\ validate = TRUE
    /\ lines = LookaheadIterator(input)
    /\ errors = 0
    /\ yielded = <<>>
    /\ status = "running"
    /\ passes = <<>>
    /\ doc = NoDoc
    /\ format = "none"
    /\ out = NoOut
    /\ OtherIdle

\* a pass of the main loop, whatever its outcome
LoopPass == SkipDocument \/ SkipRaises \/ YieldDocument \/ ReadFails

\* the caller goes on iterating the generator until it returns or raises:
\* weak fairness of Return and of LoopPass.  A pass is enabled exactly when
\* Looping holds (its outcome is one of the four), so that WF_vars(LoopPass)
\* is written with Looping for ENABLED <<LoopPass>>_vars.
LoopFair == []<>(~Looping) \/ []<><<LoopPass>>_vars

TermSpec == TermInit /\ [][Next]_vars /\ WF_vars(Return) /\ LoopFair

-----------------------------------------------------------------------------
(* Termination of read_pubtator                                             *)

\* the passes that end with a skip, a yield, or a failed read and its
\* recovery
LoopPasses ==
    {k \in 1..Len(passes) : passes[k].kind \in {"skip", "yield", "error"}}

\* every pass of the main loop consumed at least one line, and no more
\* than the input holds
Progress ==
    \A k \in LoopPasses :
        /\ passes[k].first < passes[k].last
        /\ passes[k].last <= Len(input)

\* the generator has returned or raised
Over == status \in {"done", "raised"}

\* C27: iterating read_pubtator ends, after no more Documents than the
\* input has lines: every pass of its main loop that skips, reads, or
\* fails and recovers consumes at least one line and none past the end of
\* the input
C27_Terminates ==
    /\ [](Progress /\ Len(yielded) <= Len(input))
    /\ <>Over

\* C27 happens: the generator returned after a pass that yielded a Document
\* and a pass whose read failed
C27_Witness ==
    /\ status = "done"
    /\ ErrorPasses # {}
    /\ \E k \in LoopPasses : passes[k].kind = "yield"

-----------------------------------------------------------------------------
(* The document id of the annotations of a Document                         *)

\* C28: every annotation of every Document yielded carries the id of the
\* Document
C28_AnnotationsOfOwnDocument ==
    \A k \in 1..Len(yielded) : \A j \in 1..Len(yielded[k].annotations) :
        yielded[k].annotations[j].docid = yielded[k].id

-----------------------------------------------------------------------------
(* tools/mergeannotations.py: resolve_duplicate_ids over the annotation     *)
(* sets read from the files to merge.  A span is [kind, id], a relation     *)
(* also holds the ids from and to of its body; a dict is a function.        *)

\* the most annotation sets merged, and the most annotations of a set
MaxSets == 2
MaxSetSize == 3

WaSpan(id_) == [kind |-> "span", id |-> id_]
WaRelation(id_, from_, to) ==
    [kind |-> "rel", id |-> id_, from |-> from_, to |-> to]

AnnPool ==
    {WaSpan(<<"T", "1">>), WaSpan(<<"T">>), WaRelation(<<"R", "1">>, <<"T", "1">>, <<"T">>),
     WaRelation(<<"T">>, <<"T", "1">>, <<"T", "1">>)}

\* read_jsonld_annotations raises FormatError for an id met twice in a file
UniqueIds(anns) ==
    \A i, j \in 1..Len(anns) : anns[i].id = anns[j].id => i = j

AnnSets ==
    {anns \in UNION {[1..n -> AnnPool] : n \in 0..MaxSetSize} :
        UniqueIds(anns)}

MergeInputs == UNION {[1..n -> AnnSets] : n \in 1..MaxSets}

\* the number of digits at the end of s: (\d*)$ of line 43, in the Python 2
\* this script is written in, where \d without re.UNICODE is [0-9]
RECURSIVE TrailingDigits(_)
TrailingDigits(s) ==
    IF s # <<>> /\ s[Len(s)] \in AsciiDigit
    THEN 1 + TrailingDigits(SubSeq(s, 1, Len(s) - 1)) ELSE 0

\* _split_id, for an id without a line break
_split_id(id_) ==
    [prefix |-> SubSeq(id_, 1, Len(id_) - TrailingDigits(id_)),
     num |-> IF TrailingDigits(id_) = 0 THEN 0
             ELSE ToInt(SubSeq(id_, Len(id_) - TrailingDigits(id_) + 1,
                               Len(id_)))]

\* the ids met before the annotation j of the set i in the loop 54-58
SeenBefore(annotations, i, j) ==
    (UNION {{annotations[k][l].id : l \in 1..Len(annotations[k])} :
               k \in 1..(i - 1)})
    \cup {annotations[i][l].id : l \in 1..(j - 1)}

\* the annotation j of the set i is in duplicates (56-57)
InDuplicates(annotations, i, j) ==
    annotations[i][j].id \in SeenBefore(annotations, i, j)

AllIds(annotations) ==
    UNION {{annotations[k][l].id : l \in 1..Len(annotations[k])} :
              k \in 1..Len(annotations)}

Max(a, b) == IF a >= b THEN a ELSE b

RECURSIVE MaxOf(_)
MaxOf(S) ==
    IF S = {} THEN 0
    ELSE Max(CHOOSE x \in S : TRUE, MaxOf(S \ {CHOOSE x \in S : TRUE}))

\* max_by_id_prefix after the loop 61-65, on the prefixes of the ids
max_by_id_prefix(annotations) ==
    [p \in {_split_id(x).prefix : x \in AllIds(annotations)} |->
        MaxOf({_split_id(x).num :
                  x \in {y \in AllIds(annotations) : _split_id(y).prefix = p}})]

\* d.get(k, k)
MapGet(d, k) == IF k \in DOMAIN d THEN d[k] ELSE k

\* the loop 69-80 from the annotation j of the set i on: id_maps[i] is the
\* id_map of the set i
RECURSIVE MintLoop(_, _, _, _, _)

\* 75-79: the duplicate gets the next number of its prefix
Mint(annotations, i, j, maxes, id_maps, prefix) ==
    MintLoop(annotations, i, j + 1,
             [maxes EXCEPT ![prefix] = maxes[prefix] + 1],
             [id_maps EXCEPT ![i] =
                 (annotations[i][j].id :> (prefix \o ToStr(maxes[prefix] + 1)))
                 @@ id_maps[i]])

MintLoop(annotations, i, j, maxes, id_maps) ==
    IF i > Len(annotations) THEN id_maps
    ELSE IF j > Len(annotations[i])
    THEN MintLoop(annotations, i + 1, 1, maxes, id_maps)
    ELSE IF ~InDuplicates(annotations, i, j)
    THEN MintLoop(annotations, i, j + 1, maxes, id_maps)
    ELSE Mint(annotations, i, j, maxes, id_maps,
              _split_id(annotations[i][j].id).prefix)

\* an empty dict
NoMap == [k \in {} |-> <<>>]

\* a remap_ids that leaves the ids of the body of a relation as they are
remap_ids_own(a, id_map) == [a EXCEPT !.id = MapGet(id_map, a.id)]

\* Annotation.remap_ids, RelationAnnotation.remap_ids
remap_ids(a, id_map) ==
    IF a.kind = "rel"
    THEN [a EXCEPT !.id = MapGet(id_map, a.id),
                   !.from = MapGet(id_map, a.from),
                   !.to = MapGet(id_map, a.to)]
    ELSE [a EXCEPT !.id = MapGet(id_map, a.id)]

\* 84-86
RemapAll(annotations, id_maps) ==
    [i \in 1..Len(annotations) |->
        [j \in 1..Len(annotations[i]) |->
            remap_ids(annotations[i][j], id_maps[i])]]

\* resolve_duplicate_ids: the annotation sets as it leaves them
resolve_duplicate_ids(annotations) ==
    RemapAll(annotations,
             MintLoop(annotations, 1, 1, max_by_id_prefix(annotations),
                      [i \in 1..Len(annotations) |-> NoMap]))

\* resolve_duplicate_ids is called on the sets read (main)
Resolve ==
    /\ merge.state = "read"
    /\ merge' = [merge EXCEPT
                    !.state = "resolved",
                    !.annotations = resolve_duplicate_ids(merge.annotations)]
    /\ UNCHANGED <<threads, calls, split>>
    /\ UNCHANGED streamVars
    /\ UNCHANGED serVars

MergeInit ==
    /\ input = <<>>
    /\ ids = NoIds
    /\ validate = TRUE
    /\ lines = LookaheadIterator(<<>>)
    /\ errors = 0
    /\ yielded = <<>>
    /\ status = "running"
    /\ passes = <<>>
    /\ doc = NoDoc
    /\ format = "none"
    /\ out = NoOut
    /\ threads = <<>>
    /\ calls = <<>>
    /\ split = [state |-> "none", sentences |-> <<>>, text |-> <<>>,
                exc |-> "", aligned |-> <<>>]
    /\ \E sets \in MergeInputs :
          merge = [state |-> "read", before |-> sets, annotations |-> sets]

MergeNext == Resolve

MergeSpec == MergeInit /\ [][MergeNext]_vars

\* the places of the annotations: the annotation j of the set i
Places ==
    {p \in (1..MaxSets) \X (1..MaxSetSize) :
        p[1] <= Len(merge.before) /\ p[2] <= Len(merge.before[p[1]])}

AnnBefore(p) == merge.before[p[1]][p[2]]
AnnAfter(p) == merge.annotations[p[1]][p[2]]

\* p is the first place, in the order of the sets, that holds its id
FirstHolder(p) ==
    \A q \in Places :
        AnnBefore(q).id = AnnBefore(p).id
            => q[1] > p[1] \/ (q[1] = p[1] /\ q[2] >= p[2])

\* the end e ("from" or "to") of the relation at p
EndOf(a, e) == IF e = "from" THEN a.from ELSE a.to

\* C29: after resolve_duplicate_ids the ids of all the annotations of all
\* the sets are pairwise distinct, the first set that held an id still
\* holds it on the same annotation, and an end of a relation that was the
\* id of an annotation of its set is the id that annotation has now
C29_IdsResolved ==
    merge.state = "resolved" =>
        /\ \A p, q \in Places : AnnAfter(p).id = AnnAfter(q).id => p = q
        /\ \A p \in Places : FirstHolder(p) => AnnAfter(p).id = AnnBefore(p).id
        /\ \A p, q \in Places : \A e \in {"from", "to"} :
              /\ AnnBefore(p).kind = "rel"
              /\ q[1] = p[1]
              /\ EndOf(AnnBefore(p), e) = AnnBefore(q).id
              => EndOf(AnnAfter(p), e) = AnnAfter(q).id

\* C29 happens: a relation of the second set had its own id and the ids at
\* both its ends changed, each with the annotation of its set that held it
C29_Witness ==
    /\ merge.state = "resolved"
    /\ \E p, q, r \in Places :
          /\ p[1] = 2 /\ q[1] = 2 /\ r[1] = 2
          /\ AnnBefore(p).kind = "rel"
          /\ AnnAfter(p).id # AnnBefore(p).id
          /\ AnnBefore(p).from = AnnBefore(q).id /\ AnnAfter(q).id # AnnBefore(q).id
          /\ AnnBefore(p).to = AnnBefore(r).id /\ AnnAfter(r).id # AnnBefore(r).id

-----------------------------------------------------------------------------
(* ssplit.py: _realign(sentences, text).  o and p count the characters      *)
(* passed, so that text[o] of the source is text[o + 1] here.               *)

\* the most sentences handed to _realign
MaxSentences == 2

AlignTexts == {<<>>, <<" ">>, <<"a">>, <<"a", "b">>, <<"a", " ", "b">>, <<" ", "a", " ">>}
AlignSentences == {<<>>, <<"a">>, <<"b">>, <<"a", "b">>, <<"a", " ", "b">>, <<"a", "a">>}

SentenceLists == UNION {[1..n -> AlignSentences] : n \in 0..MaxSentences}

AlignResult(e, o, aligned) == [exc |-> e, o |-> o, aligned |-> aligned]

\* aligned[k] += c
AddTo(aligned, k, c) == [aligned EXCEPT ![k] = aligned[k] \o <<c>>]

\* the loop 37-47 for the sentence s, the i-th (from 1): aligned[-1] is the
\* last string of aligned and aligned[-2] the one before
RECURSIVE InitialSpace(_, _, _, _, _)
InitialSpace(s, text, i, o, aligned) ==
    IF o >= Len(text) \/ s = <<>> THEN AlignResult("IndexError", o, aligned)
    ELSE IF text[o + 1] = s[1] THEN AlignResult("", o, aligned)
    ELSE IF text[o + 1] \notin Whitespace
    THEN AlignResult("ValueError", o, aligned)
    ELSE InitialSpace(s, text, i, o + 1,
                      AddTo(aligned,
                            IF i = 1 THEN Len(aligned) ELSE Len(aligned) - 1,
                            text[o + 1]))

\* the loop 58-73 for the sentence s from its character p on
RECURSIVE CharLoop(_, _, _, _, _)
CharLoop(s, text, o, p, aligned) ==
    IF p >= Len(s) THEN AlignResult("", o, aligned)
    ELSE IF o < Len(text) /\ text[o + 1] = s[p + 1]
    THEN CharLoop(s, text, o + 1, p + 1,
                  AddTo(aligned, Len(aligned), text[o + 1]))
    ELSE IF s[p + 1] \in Whitespace THEN CharLoop(s, text, o, p + 1, aligned)
    ELSE IF o >= Len(text) THEN AlignResult("IndexError", o, aligned)
    ELSE IF text[o + 1] \in Whitespace
    THEN CharLoop(s, text, o + 1, p,
                  AddTo(aligned, Len(aligned), text[o + 1]))
    ELSE AlignResult("ValueError", o, aligned)

\* 50-73: r is what the loop 37-47 left
AlignSentence(s, text, r) ==
    IF r.exc # "" THEN r
    ELSE IF SubSeq(text, r.o + 1, Min(r.o + Len(s), Len(text))) = s
    THEN AlignResult("", r.o + Len(s),
                     [r.aligned EXCEPT ![Len(r.aligned)] = @ \o s])
    ELSE CharLoop(s, text, r.o, 0, r.aligned)

\* the loop 76-81 over what is left of the text
RECURSIVE Leftover(_, _, _)
Leftover(text, o, aligned) ==
    IF o >= Len(text) THEN AlignResult("", o, aligned)
    ELSE IF text[o + 1] \notin Whitespace
    THEN AlignResult("ValueError", o, aligned)
    ELSE IF aligned = <<>> THEN AlignResult("IndexError", o, aligned)
    ELSE Leftover(text, o + 1, AddTo(aligned, Len(aligned), text[o + 1]))

\* 83-84: r is what the loop 76-81 left
AlignEnd(text, r) ==
    IF r.exc # "" THEN r
    ELSE IF Join(<<>>, r.aligned) # text
    THEN AlignResult("AssertionError", r.o, r.aligned)
    ELSE r

\* the loop 33-73 from the i-th sentence on: r is what the sentences before
\* it left
RECURSIVE AlignLoop(_, _, _, _)
AlignLoop(sentences, text, i, r) ==
    IF r.exc # "" THEN r
    ELSE IF i > Len(sentences)
    THEN AlignEnd(text, Leftover(text, r.o, r.aligned))
    ELSE AlignLoop(sentences, text, i + 1,
                   AlignSentence(sentences[i], text,
                                 InitialSpace(sentences[i], text, i, r.o,
                                              Append(r.aligned, <<>>))))

\* _realign: exc is the exception it raises, aligned the list it returns
\* when exc = ""
_realign(sentences, text) ==
    AlignLoop(sentences, text, 1, AlignResult("", 0, <<>>))

\* _realign is called (sentence_split, 92)
Realign ==
    /\ split.state = "called"
    /\ split' = [split EXCEPT
                    !.state = IF _realign(split.sentences, split.text).exc = ""
                              THEN "returned" ELSE "raised",
                    !.exc = _realign(split.sentences, split.text).exc,
                    !.aligned = _realign(split.sentences, split.text).aligned]
    /\ UNCHANGED <<threads, calls, merge>>
    /\ UNCHANGED streamVars
    /\ UNCHANGED serVars

AlignInit ==
    /\ input = <<>>
    /\ ids = NoIds
    /\ validate = TRUE
    /\ lines = LookaheadIterator(<<>>)
    /\ errors = 0
    /\ yielded = <<>>
    /\ status = "running"
    /\ passes = <<>>
    /\ doc = NoDoc
    /\ format = "none"
    /\ out = NoOut
    /\ threads = <<>>
    /\ calls = <<>>
    /\ merge = [state |-> "none", before |-> <<>>, annotations |-> <<>>]
    /\ \E ss \in SentenceLists : \E text \in AlignTexts :
          split = [state |-> "called", sentences |-> ss, text |-> text,
                   exc |-> "", aligned |-> <<>>]

AlignNext == Realign

AlignSpec == AlignInit /\ [][AlignNext]_vars

\* _realign returned one string per sentence, which put together are the
\* text
Exact ==
    /\ split.state = "returned"
    /\ Len(split.aligned) = Len(split.sentences)
    /\ Join(<<>>, split.aligned) = split.text

\* C30: _realign either returns one string per sentence whose concatenation
\* is the text, or raises the 'cannot align' ValueError
C30_ExactOrCannotAlign ==
    split.state # "called" => Exact \/ split.exc = "ValueError"

\* C30, as far as it holds: what _realign returns is one string per
\* sentence whose concatenation is the text, the assertion never fails,
\* and besides ValueError it raises IndexError, which it does whenever
\* the text or a sentence is empty and, on a text that is not blank,
\* whenever there is no sentence
C30_ExactOrRaises ==
    split.state # "called" =>
        /\ Exact \/ split.exc \in {"ValueError", "IndexError"}
        /\ (split.sentences # <<>>
            /\ (split.text = <<>> \/ split.sentences[1] = <<>>))
           => split.exc = "IndexError"

=============================================================================
